---- MODULE Spec2Model ----
(***************************************************************************)
(* Model of cpplib::ThreadPool (src/threadpool.h): the task queue, the     *)
(* queue mutex and condition variable, the workers map with each worker's  *)
(* state flag and thread, the producers calling enqueue, and one control   *)
(* thread calling addThreads, removeThreads and the destructor.            *)
(*                                                                         *)
(* Model of cpplib::TcpServer (src/tcp.h) on top of that pool: the         *)
(* listener, the accept thread, the client registry, the read loops run by *)
(* the pool's workers, the thread calling start and stop, a second thread  *)
(* calling sendTo, broadcast and closeClient, and the remote peers.        *)
(*                                                                         *)
(* Model of cpplib::TcpClient and cpplib::Socket (src/tcp.h, src/socket.h) *)
(* on one connection: a thread calling sendFrame or send on one end, a     *)
(* thread calling recvFrame or receive on the other, the bytes in transit, *)
(* and the loops of send_all and recv_exact over the operating system's    *)
(* partial, interrupted and failing sends and receives.                    *)
(*                                                                         *)
(* Model of the ownership of OS handles by Socket objects (src/socket.h):  *)
(* construction, moves, shutdown, close and destruction.                   *)
(***************************************************************************)
EXTENDS Integers, Sequences, FiniteSets, TLC

\* ---- bounds of the model ------------------------------------------------
MaxInitThreads == 2      \* ThreadPool(threads) is constructed with 0..MaxInitThreads
MaxThreadID == 3         \* threadID never grows beyond this many workers created
MaxEnqueue == 2          \* number of enqueue calls made by the producers
MaxResize == 2           \* largest argument of addThreads / removeThreads
MaxClients == 2          \* connections a TcpServer accepts over its lifetime
MaxServerWorkers == 1    \* largest `workers` argument of TcpServer::start
MaxStarts == 2           \* start() calls that find the server not running
PayloadLen == 2          \* bytes of a payload (a peer's message, a sendTo, a broadcast)

\* sendFrame / recvFrame calls made on the connection
MaxFrames == 2

\* longest payload of a frame
MaxFrameLen == 2

\* Socket objects and OS handles of the handle-ownership model
MaxSockets == 3
MaxHandles == 2
SocketObjs == 1 .. MaxSockets
Handles == 1 .. MaxHandles
NoHandle == 0

\* descriptor numbers and accepted connections of the send/close race
MaxFds == 2
MaxConns == 3
Fds == 1 .. MaxFds
ConnIds == 1 .. MaxConns

WorkerIds == 0 .. (MaxThreadID - 1)
TaskIds == 1 .. MaxEnqueue
NoTask == 0
NoOwner == -1
ClientIds == 1 .. MaxClients

VARIABLES
    tasks,          \* std::queue tasks: sequence of task ids, head first
    stop,           \* bool stop
    queue_mutex,    \* owner of queue_mutex: a worker id, or NoOwner
    workers,        \* keys of the workers map
    threadID,       \* size_t threadID: the next key
    wstate,         \* Worker::state of every worker object ever created
    wpc,            \* position of every worker thread in its lambda
    wtask,          \* the local `task` of every worker thread
    released,       \* condition, queue_mutex and tasks have been destroyed
    crashed,        \* the process died on a use of a destroyed member
    ctl,            \* position of the control thread
    rmLeft,         \* removeThreads: threads - threadsStopped
    rmIt,           \* removeThreads: key the iterator `it` points at
    rmResult,       \* outcome of the last removeThreads call
    notifyPending,  \* producers that left the lock and have not yet notified
    enqCalls,       \* number of enqueue calls made so far
    enqResult,      \* outcome of the last enqueue call
    future,         \* shared state of each task's std::future
    execCount,      \* how many times each task body has been invoked
    deqLog,         \* the pops in order: the task, and stop at that time
    marked          \* workers whose state removeThreads has set to Stopped

vars == << tasks, stop, queue_mutex, workers, threadID, wstate, wpc, wtask,
           released, crashed, ctl, rmLeft, rmIt, rmResult, notifyPending,
           enqCalls, enqResult, future, execCount, deqLog, marked >>

poolVars == << tasks, stop, queue_mutex, released >>
ctlVars == << ctl, rmLeft, rmIt, rmResult >>
prodVars == << notifyPending, enqCalls, enqResult >>
histVars == << future, execCount, deqLog >>

\* ---- TcpServer state ----------------------------------------------------
VARIABLES
    running,        \* std::atomic<bool> running_
    listener,       \* listener_.sockfd: "invalid" or "listening"
    pending,        \* connections completed by peers and not yet accepted
    nextId,         \* std::atomic<ClientId> next_id_
    clients,        \* keys of clients_ (the value of key id is socket id)
    sock,           \* sockfd of each accepted Socket: "none", "open", "closed"
    peer,           \* the remote end of each connection: "none", "open", "closed"
    rd,             \* handleClient: the local `r`, not yet handed to on_message_
    apc,            \* position of the accept thread
    acId,           \* acceptLoop: the local `id`
    poolUp,         \* pool_ holds a ThreadPool
    starts,         \* ThreadPools and accept threads created so far
    onConn,         \* how many times on_connect_(id, ..) was invoked
    onDisc,         \* how many times on_disconnect_(id) was invoked
    api,            \* position of the thread calling sendTo/broadcast/closeClient
    apiId,          \* sendTo / closeClient: the argument id
    apiSnap,        \* sockets copied out of the registry by the call
    apiTried,       \* sockets of the copy on which send_all has returned
    apiSent,        \* sockets of the copy to which the whole payload was written
    apiRet,         \* broadcast: the local `ok`
    closeWakes,     \* platform: closing a descriptor fails the calls blocked on it
    clients_mtx     \* clients_mtx_: "free", or the thread that holds it

srvVars == << running, listener, pending, nextId, clients, sock, peer, rd, apc,
              acId, poolUp, starts, onConn, onDisc, api, apiId, apiSnap,
              apiTried, apiSent, apiRet, closeWakes, clients_mtx >>

allVars == << vars, srvVars >>

\* ---- one connection between two TcpClient-style ends ----------------------
VARIABLES
    proto,          \* how the callers use the connection: "frame" or "raw"
    wire,           \* bytes written by ::send and not yet returned by ::recv
    wireEnd,        \* the sending end was closed: end of stream after `wire`
    sfd,            \* the sender's socket_.sockfd: "open" or "invalid"
    spc,            \* position of the sending thread
    sarg,           \* the payload given to the running sendFrame / send
    sbuf,           \* send_all: the bytes of `buf`
    ssent,          \* send_all: the local `sent`
    sos,            \* what the sender's last ::send did
    sall,           \* value returned by the last send_all
    put,            \* bytes the running call has written to the connection
    sres,           \* value returned by the sender's last call
    okFrames,       \* payloads of the sender's calls that returned true
    rpc,            \* position of the receiving thread
    rov,            \* the running recvFrame overload: "vector" or "string"
    rbuf,           \* recv_exact: the bytes of `buf`
    rneed,          \* recv_exact: `len`
    rgot,           \* recv_exact: the local `got`
    ros,            \* what the receiver's last ::recv did
    rall,           \* value returned by the last recv_exact
    out,            \* the caller's `out`, or the string receive(n) returned
    out0,           \* `out` when the running recvFrame was called
    rres,           \* value returned by the receiver's last call
    gotFrames,      \* payloads of the recvFrame calls that returned true
    timedOut,       \* a recvFrame has returned false from wait_readable
    hown,           \* Socket object -> the handle in its sockfd, or NoHandle
    hlive,          \* Socket object -> its lifetime: "none", "live", "dead"
    hrel,           \* OS handle -> number of times ::close was called on it
    hshut,          \* OS handles on which ::shutdown was called
    hnext,          \* the next handle the OS gives out
    fdtab,          \* descriptor number -> the connection open under it, or 0
    sockfd,         \* accepted connection -> sockfd of its Socket, or NoHandle
    registry,       \* keys of clients_ in the send/close race
    accepted,       \* connections accepted so far
    tpc,            \* position of the thread in sendTo
    tconn,          \* sendTo: the connection of the Socket `s` points to
    targ,           \* the descriptor number read for the coming ::send
    tleft,          \* send_all: len - sent
    rcvd            \* connection -> the ids whose sendTo bytes reached it

sndVars == << sfd, spc, sarg, sbuf, ssent, sos, sall, put, sres, okFrames >>
rcvVars == << rpc, rov, rbuf, rneed, rgot, ros, rall, out, out0, rres, gotFrames,
             timedOut >>
fdVars == << fdtab, sockfd, registry, accepted, tpc, tconn, targ, tleft, rcvd >>
hdlVars == << hown, hlive, hrel, hshut, hnext, fdVars >>
ioVars == << proto, wire, wireEnd, sndVars, rcvVars, hdlVars >>

\* two connected ends on which nothing was called yet
Connected ==
    /\ wire = << >>
    /\ wireEnd = FALSE
    /\ sfd = "open"
    /\ spc = "idle"
    /\ sarg = << >>
    /\ sbuf = << >>
    /\ ssent = 0
    /\ sos = "none"
    /\ sall = 0
    /\ put = << >>
    /\ sres = "none"
    /\ okFrames = << >>
    /\ rpc = "idle"
    /\ rov = "vector"
    /\ rbuf = << >>
    /\ rneed = 0
    /\ rgot = 0
    /\ ros = "none"
    /\ rall = 0
    /\ out = << >>
    /\ out0 = << >>
    /\ rres = "none"
    /\ gotFrames = << >>
    /\ timedOut = FALSE

\* no Socket object exists
NoSockets ==
    /\ hown = [o \in SocketObjs |-> NoHandle]
    /\ hlive = [o \in SocketObjs |-> "none"]
    /\ hrel = [h \in Handles |-> 0]
    /\ hshut = {}
    /\ hnext = 1
    /\ fdtab = [n \in Fds |-> 0]
    /\ sockfd = [c \in ConnIds |-> NoHandle]
    /\ registry = {}
    /\ accepted = 0
    /\ tpc = "idle"
    /\ tconn = 0
    /\ targ = NoHandle
    /\ tleft = 0
    /\ rcvd = [c \in ConnIds |-> {}]

\* a pool or a server on its own: the connection's variables stay as they are
IoUnused == Connected /\ NoSockets /\ proto = "frame"

\* tcp.h lines 101 and 207-217: a TcpServer after construction.
ServerConstructed ==
    /\ running = FALSE
    /\ listener = "invalid"
    /\ pending = 0
    /\ nextId = 1
    /\ clients = {}
    /\ sock = [c \in ClientIds |-> "none"]
    /\ peer = [c \in ClientIds |-> "none"]
    /\ rd = [c \in ClientIds |-> 0]
    /\ apc = "none"
    /\ acId = 0
    /\ poolUp = FALSE
    /\ starts = 0
    /\ onConn = [c \in ClientIds |-> 0]
    /\ onDisc = [c \in ClientIds |-> 0]
    /\ api = "idle"
    /\ apiId = 0
    /\ apiSnap = {}
    /\ apiTried = {}
    /\ apiSent = {}
    /\ apiRet = 0
    /\ clients_mtx = "free"

\* a ThreadPool used on its own: the server's variables stay as constructed
ServerUnused == ServerConstructed /\ closeWakes = FALSE

\* ---- helpers ------------------------------------------------------------
Min(S) == CHOOSE x \in S : \A y \in S : x <= y

SeqToSet(s) == { s[i] : i \in 1 .. Len(s) }

\* threads blocked inside condition.wait
Blocked == { w \in WorkerIds : wpc[w] = "blocked" }

\* ---- the queue ----------------------------------------------------------
\* a push that puts the new task at the head
QueuePushFront(q, t) == << t >> \o q

QueuePush(q, t) == Append(q, t)
QueueFront(q) == Head(q)
QueuePop(q) == Tail(q)

\* ---- ThreadPool(threads) / newThreads -----------------------------------
\* Worker() leaves state = Stopped until the thread itself runs line 90.
NewWorkerState == "Stopped"

\* a newThreads that numbers the new workers from zero on every call
NewThreadsReusesKeys(first, n) == 0 .. (n - 1)

\* lines 84-85: the keys threadID, threadID + 1, ... given to the new workers.
NewThreads(first, n) == first .. (first + n - 1)

Init ==
    \E n \in 0 .. MaxInitThreads :
        /\ tasks = << >>
        /\ stop = FALSE
        /\ queue_mutex = NoOwner
        /\ workers = NewThreads(0, n)
        /\ threadID = n
        /\ wstate = [w \in WorkerIds |-> IF w < n THEN NewWorkerState ELSE "none"]
        /\ wpc = [w \in WorkerIds |-> IF w < n THEN "start" ELSE "none"]
        /\ wtask = [w \in WorkerIds |-> NoTask]
        /\ released = FALSE
        /\ crashed = FALSE
        /\ ctl = "idle"
        /\ rmLeft = 0
        /\ rmIt = NoOwner
        /\ rmResult = "none"
        /\ notifyPending = 0
        /\ enqCalls = 0
        /\ enqResult = "none"
        /\ future = [t \in TaskIds |-> "none"]
        /\ execCount = [t \in TaskIds |-> 0]
        /\ deqLog = << >>
        /\ marked = {}
        /\ ServerUnused
        /\ IoUnused

\* ---- enqueue ------------------------------------------------------------
\* an enqueue without the test of line 30
EnqueueNeverRejects == FALSE

\* line 30.
EnqueueRejects == stop

EnqueuedQueue(q, t) == IF EnqueueRejects THEN q ELSE QueuePush(q, t)

\* lines 24-32: make the task and its future, lock, test stop, emplace.
Enqueue ==
    /\ ~crashed /\ ~released
    /\ enqCalls < MaxEnqueue
    /\ queue_mutex = NoOwner
    /\ LET t == enqCalls + 1 IN
        /\ enqCalls' = t
        /\ tasks' = EnqueuedQueue(tasks, t)
        /\ enqResult' = IF EnqueueRejects THEN "error" ELSE "ok"
        /\ future' = IF EnqueueRejects THEN future ELSE [future EXCEPT ![t] = "pending"]
        /\ notifyPending' = IF EnqueueRejects THEN notifyPending ELSE notifyPending + 1
    /\ UNCHANGED << stop, queue_mutex, released, workers, threadID, wstate, wpc,
                    wtask, crashed, ctlVars, execCount, deqLog, marked >>
    /\ UNCHANGED << srvVars, ioVars >>

\* line 33: condition.notify_one() wakes one blocked thread, if there is one.
EnqueueNotify ==
    /\ ~crashed
    /\ notifyPending > 0
    /\ notifyPending' = notifyPending - 1
    /\ \/ /\ Blocked = {}
          /\ wpc' = wpc
       \/ \E w \in Blocked : wpc' = [wpc EXCEPT ![w] = "lock"]
    /\ UNCHANGED << poolVars, workers, threadID, wstate, wtask, crashed, ctlVars,
                    enqCalls, enqResult, histVars, marked >>
    /\ UNCHANGED << srvVars, ioVars >>

\* ---- the worker thread (lambda of newThreads) ---------------------------
\* lines 88-91: the thread's first statement.
StartState(st) == "Waiting"

WorkerStart(w) ==
    /\ ~crashed
    /\ wpc[w] = "start"
    /\ wstate' = [wstate EXCEPT ![w] = StartState(wstate[w])]
    /\ wpc' = [wpc EXCEPT ![w] = "lock"]
    /\ UNCHANGED << poolVars, workers, threadID, wtask, crashed, ctlVars,
                    prodVars, histVars, marked >>
    /\ UNCHANGED << srvVars, ioVars >>

\* lines 96-99: the predicate of condition.wait.
WaitPredicate(w) == stop \/ wstate[w] = "Stopped" \/ tasks # << >>

\* an exit test that leaves on stop whatever the queue holds
ExitDecisionOnStop(w) == stop \/ wstate[w] = "Stopped"

\* line 101: the exit test made after the wait, still under queue_mutex.
ExitDecision(w) == (stop /\ tasks = << >>) \/ wstate[w] = "Stopped"

\* a front() without the pop()
DequeuedKeepsHead(q) == q

\* lines 105-106: front() then pop().
Dequeued(q) == QueuePop(q)

\* lines 95-107, entered from the top of the loop or after a wake-up: take
\* queue_mutex and evaluate the predicate.  If it is false the thread is
\* about to block and still owns the mutex; if it is true the thread makes
\* the exit test under the same ownership and either returns or pops.
WorkerAcquire(w) ==
    /\ ~crashed
    /\ wpc[w] = "lock"
    /\ queue_mutex = NoOwner
    /\ IF ~WaitPredicate(w)
       THEN /\ queue_mutex' = w
            /\ wpc' = [wpc EXCEPT ![w] = "towait"]
            /\ UNCHANGED << tasks, wtask, deqLog >>
       ELSE IF ExitDecision(w)
       THEN /\ wpc' = [wpc EXCEPT ![w] = "exited"]
            /\ UNCHANGED << tasks, queue_mutex, wtask, deqLog >>
       ELSE /\ wtask' = [wtask EXCEPT ![w] = QueueFront(tasks)]
            /\ tasks' = Dequeued(tasks)
            /\ deqLog' = Append(deqLog, [task |-> QueueFront(tasks), stop |-> stop])
            /\ wpc' = [wpc EXCEPT ![w] = "prerun"]
            /\ UNCHANGED queue_mutex
    /\ UNCHANGED << stop, released, workers, threadID, wstate, crashed, ctlVars,
                    prodVars, future, execCount, marked >>
    /\ UNCHANGED << srvVars, ioVars >>

\* condition.wait(lock): release queue_mutex and block, atomically with
\* respect to the mutex only.
WorkerBlock(w) ==
    /\ ~crashed
    /\ wpc[w] = "towait"
    /\ queue_mutex = w
    /\ queue_mutex' = NoOwner
    /\ wpc' = [wpc EXCEPT ![w] = "blocked"]
    /\ UNCHANGED << tasks, stop, released, workers, threadID, wstate, wtask,
                    crashed, ctlVars, prodVars, histVars, marked >>
    /\ UNCHANGED << srvVars, ioVars >>

\* a condition variable may wake a waiter without any notification.
SpuriousWake(w) ==
    /\ ~crashed
    /\ wpc[w] = "blocked"
    /\ wpc' = [wpc EXCEPT ![w] = "lock"]
    /\ UNCHANGED << poolVars, workers, threadID, wstate, wtask, crashed, ctlVars,
                    prodVars, histVars, marked >>
    /\ UNCHANGED << srvVars, ioVars >>

\* lines 112-114 and 119-121.
MarkRunning(st) == IF st # "Stopped" THEN "Running" ELSE st
MarkWaiting(st) == IF st # "Stopped" THEN "Waiting" ELSE st

\* a thread that drops the popped task when it finds itself Stopped
PreRunTargetDropsWhenStopped(st) == IF st = "Stopped" THEN "exited" ELSE "run"

\* line 109: `if (task)`; the thread goes on to run whatever it popped.
PreRunTarget(st) == "run"

\* lines 109-115.
WorkerPreRun(w) ==
    /\ ~crashed
    /\ wpc[w] = "prerun"
    /\ wstate' = [wstate EXCEPT ![w] = MarkRunning(wstate[w])]
    /\ wpc' = [wpc EXCEPT ![w] = PreRunTarget(wstate[w])]
    /\ UNCHANGED << poolVars, workers, threadID, wtask, crashed, ctlVars,
                    prodVars, histVars, marked >>
    /\ UNCHANGED << srvVars, ioVars >>

\* std::packaged_task::operator(): the result or the exception thrown by the
\* body is stored in the shared state; nothing propagates to the caller.
TaskOutcome(throws) == IF throws THEN "exception" ELSE "value"

\* a task whose exception unwinds out of the worker's lambda
AfterTaskUnwinds(throws) == IF throws THEN "exited" ELSE "postrun"

\* where the thread continues after task() returns.
AfterTask(throws) == "postrun"

\* line 116.
WorkerRun(w) ==
    /\ ~crashed
    /\ wpc[w] = "run"
    /\ \E throws \in BOOLEAN :
        /\ future' = [future EXCEPT ![wtask[w]] = TaskOutcome(throws)]
        /\ wpc' = [wpc EXCEPT ![w] = AfterTask(throws)]
    /\ execCount' = [execCount EXCEPT ![wtask[w]] = @ + 1]
    /\ UNCHANGED << poolVars, workers, threadID, wstate, wtask, crashed, ctlVars,
                    prodVars, deqLog, marked >>
    /\ UNCHANGED << srvVars, ioVars >>

\* lines 117-122, then back to the top of the loop (a fresh empty `task`).
WorkerPostRun(w) ==
    /\ ~crashed
    /\ wpc[w] = "postrun"
    /\ wstate' = [wstate EXCEPT ![w] = MarkWaiting(wstate[w])]
    /\ wpc' = [wpc EXCEPT ![w] = "lock"]
    /\ wtask' = [wtask EXCEPT ![w] = NoTask]
    /\ UNCHANGED << poolVars, workers, threadID, crashed, ctlVars,
                    prodVars, histVars, marked >>
    /\ UNCHANGED << srvVars, ioVars >>

\* A thread that locks queue_mutex, reads tasks or waits on condition after
\* ~ThreadPool has destroyed them has undefined behaviour: it either goes on
\* as if the members still existed (the actions above) or the process dies.
WorkerUseAfterRelease(w) ==
    /\ ~crashed
    /\ released
    /\ wpc[w] \in {"lock", "towait"}
    /\ crashed' = TRUE
    /\ UNCHANGED << poolVars, workers, threadID, wstate, wpc, wtask, ctlVars,
                    prodVars, histVars, marked >>
    /\ UNCHANGED << srvVars, ioVars >>

\* ---- addThreads / gethreadCount -----------------------------------------
gethreadCount == Cardinality(workers)

\* lines 54 and 83-127: n times emplace a Worker() under the key threadID,
\* start its thread, increment threadID.
AddThreads(n) ==
    /\ ~crashed
    /\ ctl = "idle"
    /\ threadID + n <= MaxThreadID
    /\ workers' = workers \cup NewThreads(threadID, n)
    /\ wstate' = [w \in WorkerIds |->
                    IF w \in NewThreads(threadID, n) THEN NewWorkerState ELSE wstate[w]]
    /\ wpc' = [w \in WorkerIds |->
                    IF w \in NewThreads(threadID, n) THEN "start" ELSE wpc[w]]
    /\ threadID' = threadID + n
    /\ UNCHANGED << poolVars, wtask, crashed, ctlVars, prodVars, histVars, marked >>
    /\ UNCHANGED << srvVars, ioVars >>

\* ---- removeThreads ------------------------------------------------------
\* a size test that is off by one
RemoveRejectsOffByOne(n) == gethreadCount + 1 < n

\* line 38.
RemoveRejects(n) == gethreadCount < n

\* line 41: workers.begin() is the entry with the smallest key.
MapBegin == IF workers = {} THEN NoOwner ELSE Min(workers)

\* lines 38-42: the size test, then the iterator is set to begin().
RemoveThreads(n) ==
    /\ ~crashed
    /\ ctl = "idle"
    /\ IF RemoveRejects(n)
       THEN /\ rmResult' = "error"
            /\ UNCHANGED << ctl, rmLeft, rmIt >>
       ELSE IF n = 0
       THEN /\ rmResult' = "ok"
            /\ UNCHANGED << ctl, rmLeft, rmIt >>
       ELSE /\ rmResult' = "running"
            /\ ctl' = "rm_mark"
            /\ rmLeft' = n
            /\ rmIt' = MapBegin
    /\ UNCHANGED << poolVars, workers, threadID, wstate, wpc, wtask, crashed,
                    prodVars, histVars, marked >>
    /\ UNCHANGED << srvVars, ioVars >>

\* lines 43-46: under the worker's state_mutex only.
RemoveMark ==
    /\ ~crashed
    /\ ctl = "rm_mark"
    /\ wstate' = [wstate EXCEPT ![rmIt] = "Stopped"]
    /\ marked' = marked \cup {rmIt}
    /\ ctl' = "rm_notify"
    /\ UNCHANGED << poolVars, workers, threadID, wpc, wtask, crashed, rmLeft, rmIt,
                    rmResult, prodVars, histVars >>
    /\ UNCHANGED << srvVars, ioVars >>

\* line 47: condition.notify_all() wakes the threads blocked at that moment.
NotifiedAll == [w \in WorkerIds |-> IF wpc[w] = "blocked" THEN "lock" ELSE wpc[w]]

RemoveNotify ==
    /\ ~crashed
    /\ ctl = "rm_notify"
    /\ wpc' = NotifiedAll
    /\ ctl' = "rm_erase"
    /\ UNCHANGED << poolVars, workers, threadID, wstate, wtask, crashed, rmLeft, rmIt,
                    rmResult, prodVars, histVars, marked >>
    /\ UNCHANGED << srvVars, ioVars >>

\* a Worker whose destructor lets go of a running thread
JoinedDetached(w) == TRUE

\* line 77: thread.join() returns when the thread has left its lambda.
Joined(w) == wpc[w] = "exited"

\* lines 48-49: erase destroys the Worker, whose destructor joins the thread
\* (line 77); the call returns when the thread has left its lambda.
RemoveErase ==
    /\ ~crashed
    /\ ctl = "rm_erase"
    /\ Joined(rmIt)
    /\ workers' = workers \ {rmIt}
    /\ rmLeft' = rmLeft - 1
    /\ IF rmLeft - 1 = 0
       THEN /\ ctl' = "idle"
            /\ rmIt' = NoOwner
            /\ rmResult' = "ok"
       ELSE /\ ctl' = "rm_mark"
            /\ rmIt' = Min(workers \ {rmIt})
            /\ UNCHANGED rmResult
    /\ UNCHANGED << poolVars, threadID, wstate, wpc, wtask, crashed,
                    prodVars, histVars, marked >>
    /\ UNCHANGED << srvVars, ioVars >>

\* ---- ~ThreadPool --------------------------------------------------------
\* lines 59-62.
Shutdown ==
    /\ ~crashed
    /\ ctl = "idle"
    /\ queue_mutex = NoOwner
    /\ stop' = TRUE
    /\ ctl' = "d_notify"
    /\ UNCHANGED << tasks, queue_mutex, released, workers, threadID, wstate, wpc,
                    wtask, crashed, rmLeft, rmIt, rmResult, prodVars, histVars, marked >>
    /\ UNCHANGED << srvVars, ioVars >>

\* line 63.
ShutdownNotify ==
    /\ ~crashed
    /\ ctl = "d_notify"
    /\ wpc' = NotifiedAll
    /\ ctl' = "d_release"
    /\ UNCHANGED << poolVars, workers, threadID, wstate, wtask, crashed, rmLeft, rmIt,
                    rmResult, prodVars, histVars, marked >>
    /\ UNCHANGED << srvVars, ioVars >>

\* a task destroyed while still queued leaves its future with a broken promise.
Abandoned(q) == [t \in TaskIds |-> IF t \in SeqToSet(q) THEN "broken" ELSE future[t]]

\* a queue that outlives the pool with its tasks
DestroyedKeeps(q) == q

\* line 129: the destructor of `tasks` destroys the tasks still queued.
Destroyed(q) == << >>

\* lines 128-133: after the destructor body the members are destroyed in
\* reverse order of declaration: condition, queue_mutex and tasks go before
\* workers.
ReleaseMembers ==
    /\ ~crashed
    /\ ctl = "d_release"
    /\ released' = TRUE
    /\ future' = Abandoned(tasks)
    /\ tasks' = Destroyed(tasks)
    /\ ctl' = "d_join"
    /\ UNCHANGED << stop, queue_mutex, workers, threadID, wstate, wpc, wtask, crashed,
                    rmLeft, rmIt, rmResult, prodVars, execCount, deqLog, marked >>
    /\ UNCHANGED << srvVars, ioVars >>

\* destruction of the workers map: every ~Worker joins its thread (line 77).
JoinWorkers ==
    /\ ~crashed
    /\ ctl = "d_join"
    /\ \A w \in workers : Joined(w)
    /\ workers' = {}
    /\ ctl' = "done"
    /\ UNCHANGED << poolVars, threadID, wstate, wpc, wtask, crashed, rmLeft, rmIt,
                    rmResult, prodVars, histVars, marked >>
    /\ UNCHANGED << srvVars, ioVars >>

\* ---- the system ---------------------------------------------------------
Next ==
    \/ Enqueue
    \/ EnqueueNotify
    \/ \E w \in WorkerIds : WorkerStart(w)
    \/ \E w \in WorkerIds : WorkerAcquire(w)
    \/ \E w \in WorkerIds : WorkerBlock(w)
    \/ \E w \in WorkerIds : SpuriousWake(w)
    \/ \E w \in WorkerIds : WorkerPreRun(w)
    \/ \E w \in WorkerIds : WorkerRun(w)
    \/ \E w \in WorkerIds : WorkerPostRun(w)
    \/ \E w \in WorkerIds : WorkerUseAfterRelease(w)
    \/ \E n \in 1 .. MaxResize : AddThreads(n)
    \/ \E n \in 0 .. MaxResize : RemoveThreads(n)
    \/ RemoveMark
    \/ RemoveNotify
    \/ RemoveErase
    \/ Shutdown
    \/ ShutdownNotify
    \/ ReleaseMembers
    \/ JoinWorkers

Spec == Init /\ [][Next]_vars

\* Fair scheduling: every thread that can take a step eventually takes it, a
\* thread contending for queue_mutex eventually gets it, and every task body
\* returns.  Nothing obliges a caller to call enqueue, addThreads,
\* removeThreads or the destructor, nor the condition variable to wake a
\* waiter spuriously.
Fairness ==
    /\ \A w \in WorkerIds :
        /\ WF_vars(WorkerStart(w))
        /\ SF_vars(WorkerAcquire(w))
        /\ WF_vars(WorkerBlock(w))
        /\ WF_vars(WorkerPreRun(w))
        /\ WF_vars(WorkerRun(w))
        /\ WF_vars(WorkerPostRun(w))
    /\ WF_vars(EnqueueNotify)
    /\ WF_vars(RemoveMark)
    /\ WF_vars(RemoveNotify)
    /\ WF_vars(RemoveErase)
    /\ WF_vars(ShutdownNotify)
    /\ WF_vars(ReleaseMembers)
    /\ WF_vars(JoinWorkers)

FairSpec == Spec /\ Fairness

TypeOK ==
    /\ tasks \in Seq(TaskIds)
    /\ stop \in BOOLEAN
    /\ queue_mutex \in WorkerIds \cup {NoOwner}
    /\ workers \subseteq WorkerIds
    /\ threadID \in 0 .. MaxThreadID
    /\ \A w \in WorkerIds : wstate[w] \in {"none", "Waiting", "Running", "Stopped"}
    /\ \A w \in WorkerIds : wtask[w] \in TaskIds \cup {NoTask}
    /\ rmResult \in {"none", "ok", "error", "running"}

\* ---- properties ---------------------------------------------------------
DeqTasks == { deqLog[i].task : i \in 1 .. Len(deqLog) }

Ready(t) == future[t] \in {"value", "exception"}

\* C1: every task is popped from the queue at most once, is held by at most
\* one worker, has its body invoked at most once, and is never in the queue
\* again once it has been popped.
C1_TaskAtMostOnce ==
    \A t \in TaskIds :
        /\ execCount[t] <= 1
        /\ Cardinality({ i \in 1 .. Len(deqLog) : deqLog[i].task = t }) <= 1
        /\ Cardinality({ w \in WorkerIds : wtask[w] = t }) <= 1
        /\ t \in DeqTasks => t \notin SeqToSet(tasks)

C1_Witness ==
    /\ Len(deqLog) = MaxEnqueue
    /\ \A t \in TaskIds : execCount[t] = 1

\* workers of the map that removeThreads has not marked
Unmarked == workers \ marked

\* C2: while the pool is not shut down and keeps a worker that removeThreads
\* has not marked, every task accepted by enqueue eventually has its body
\* executed and its future made ready.
C2_AcceptedTaskRuns ==
    \A t \in TaskIds :
        (future[t] = "pending") ~> (Ready(t) \/ stop \/ Unmarked = {})

\* C3: once stop is set, an enqueue call reports an error and leaves the
\* queue (and every future) as it was; and an enqueue call is never held
\* back by the length of the queue, only by the queue mutex.
C3_EnqueueAfterStop ==
    /\ [](  (~crashed /\ ~released /\ enqCalls < MaxEnqueue /\ queue_mutex = NoOwner)
            => ENABLED Enqueue)
    /\ [][ (stop /\ enqCalls' # enqCalls)
            => (enqResult' = "error" /\ tasks' = tasks /\ future' = future
                /\ notifyPending' = notifyPending) ]_vars

C3_Witness ==
    /\ stop
    /\ enqResult = "error"
    /\ tasks # << >>

\* C4: a worker that removeThreads has marked Stopped and notified while the
\* worker was blocked in, or about to block in, the queue wait eventually
\* leaves its thread function, so that the join of removeThreads returns.
C4_RemoveReturns ==
    \A w \in WorkerIds :
        (ctl = "rm_erase" /\ rmIt = w /\ wpc[w] \in {"towait", "blocked"})
            ~> (wpc[w] = "exited")

\* C5: a worker marked Stopped by removeThreads keeps the state Stopped and
\* pops no further task.
C5_StoppedIsFinal ==
    [][ \A w \in marked :
            /\ wstate'[w] = "Stopped"
            /\ wpc'[w] = "prerun" => wpc[w] = "prerun" ]_vars

\* C6: a worker that has left its thread function holds no task, and every
\* task popped from the queue has been executed or is still held by a
\* worker that is about to execute it.
C6_DequeuedTaskCompletes ==
    /\ \A w \in WorkerIds : wpc[w] = "exited" => wtask[w] = NoTask
    /\ \A t \in DeqTasks :
        \/ execCount[t] >= 1
        \/ \E w \in WorkerIds : wtask[w] = t /\ wpc[w] \in {"prerun", "run"}

C6_Witness ==
    \E w \in marked :
        /\ wstate[w] = "Stopped"
        /\ wpc[w] = "postrun"
        /\ execCount[wtask[w]] = 1

\* C7 as stated: once stop is set no worker pops a task.
C7_NoDequeueAfterStop == [][ stop => deqLog' = deqLog ]_vars

\* C7 amended: a worker that is not Stopped leaves its thread function only
\* when stop is set and the queue is empty, and a task is abandoned
\* unexecuted only when it is still queued at the release of the queue.
C7_ExitOnStopOnlyWhenEmpty ==
    /\ [](\A t \in TaskIds :
            future[t] = "broken" => (released /\ execCount[t] = 0 /\ t \notin DeqTasks))
    /\ [][ \A w \in WorkerIds :
            (wpc[w] # "exited" /\ wpc'[w] = "exited" /\ wstate[w] # "Stopped")
                => (stop /\ tasks = << >>) ]_vars

C7_Witness ==
    /\ \E i \in 1 .. Len(deqLog) : deqLog[i].stop /\ execCount[deqLog[i].task] = 1
    /\ \E w \in workers : wpc[w] = "exited" /\ wstate[w] # "Stopped"

\* C8: tasks are popped in the order in which enqueue appended them (task
\* ids are the numbers of the enqueue calls, made under the queue mutex).
C8_Fifo ==
    \A i, j \in 1 .. Len(deqLog) : i < j => deqLog[i].task < deqLog[j].task

C8_Witness ==
    /\ Len(deqLog) = 2
    /\ \E w1, w2 \in WorkerIds : w1 # w2 /\ wtask[w1] = 1 /\ wtask[w2] = 2

\* C9: a task body that throws leaves the exception in its future; the
\* worker goes on to the end of the loop body, sets its state back to
\* Waiting unless removeThreads has marked it Stopped, and returns to the
\* top of the loop.
C9_ThrowIsReported ==
    /\ [][ \A w \in WorkerIds :
            (wpc[w] = "run" /\ wpc'[w] # "run" /\ future'[wtask[w]] = "exception")
                => (wpc'[w] = "postrun" /\ ~crashed') ]_vars
    /\ [][ \A w \in WorkerIds :
            (wpc[w] = "postrun" /\ wpc'[w] # "postrun" /\ future[wtask[w]] = "exception")
                => /\ wpc'[w] = "lock"
                   /\ wstate[w] # "Stopped" => wstate'[w] = "Waiting" ]_vars

\* the only worker ever created ran a task that threw and then another task
C9_Witness ==
    /\ threadID = 1
    /\ future[1] = "exception"
    /\ execCount[2] = 1

\* C10: a removeThreads call that reports an error changes nothing, and a
\* call that goes on to stop workers was asked for no more than there are.
C10_RemoveTooMany ==
    /\ [][ (rmResult' = "error" /\ rmResult # "error")
            => UNCHANGED << tasks, stop, queue_mutex, released, workers, threadID,
                            wstate, wpc, wtask, ctl, future, marked >> ]_vars
    /\ [][ (ctl = "idle" /\ ctl' = "rm_mark") => rmLeft' <= gethreadCount ]_vars

C10_Witness ==
    /\ rmResult = "error"
    /\ workers # {}
    /\ tasks # << >>

\* C11: a step of addThreads(n), which is the only step that moves threadID
\* (by n), raises gethreadCount by exactly n, keeps every worker that was in
\* the map with its state, its position and its task, and leaves the queue
\* untouched.
C11_AddThreadsFrame ==
    [][ threadID' # threadID =>
            /\ Cardinality(workers') = gethreadCount + (threadID' - threadID)
            /\ workers \subseteq workers'
            /\ \A w \in workers :
                wstate'[w] = wstate[w] /\ wpc'[w] = wpc[w] /\ wtask'[w] = wtask[w]
            /\ tasks' = tasks ]_vars

\* workers were added while an older worker runs a task and another task waits
C11_Witness ==
    /\ threadID > MaxInitThreads
    /\ tasks # << >>
    /\ \E w1, w2 \in workers : wpc[w1] = "run" /\ wpc[w2] = "start"

\* ======================================================================
\* TcpServer
\* ======================================================================
lsnVars == << listener, pending >>
connVars == << sock, peer, rd >>
cbVars == << onConn, onDisc >>
accVars == << apc, acId >>
apiVars == << api, apiId, apiSnap, apiTried, apiSent, apiRet >>

\* the workers' part of the pool
wkVars == << workers, threadID, wstate, wpc, wtask >>

\* The listening socket inside the kernel.  Where a close does not fail the
\* calls blocked on the descriptor, a blocked ::accept keeps it alive.
KernelListening == listener = "listening" \/ (apc = "accept" /\ ~closeWakes)

\* ---- the peers ----------------------------------------------------------
PeerConnect ==
    /\ ~crashed
    /\ KernelListening
    /\ pending = 0
    /\ nextId + pending <= MaxClients
    /\ pending' = pending + 1
    /\ UNCHANGED << vars, running, listener, nextId, clients, connVars, accVars,
                    poolUp, starts, cbVars, apiVars, closeWakes, clients_mtx, ioVars >>

PeerClose(c) ==
    /\ ~crashed
    /\ peer[c] = "open"
    /\ peer' = [peer EXCEPT ![c] = "closed"]
    /\ UNCHANGED << vars, running, lsnVars, nextId, clients, sock, rd, accVars,
                    poolUp, starts, cbVars, apiVars, closeWakes, clients_mtx, ioVars >>

\* ---- bind / listen ------------------------------------------------------
\* tcp.h 104-110, socket.h 142-198: ensureSocket makes a new descriptor when
\* the listener has none, also after a close.
Listen ==
    /\ ~crashed
    /\ ctl = "idle"
    /\ listener = "invalid"
    /\ listener' = "listening"
    /\ UNCHANGED << vars, running, pending, nextId, clients, connVars, accVars,
                    poolUp, starts, cbVars, apiVars, closeWakes, clients_mtx, ioVars >>

\* ---- start --------------------------------------------------------------
\* tcp.h 121: running_.exchange(true) returned true.
StartIsNoop == running

\* tcp.h 127: pool_ = std::make_unique<ThreadPool>(n), as ThreadPool(n) above.
FreshPool(n) ==
    /\ tasks' = << >>
    /\ stop' = FALSE
    /\ queue_mutex' = NoOwner
    /\ released' = FALSE
    /\ workers' = NewThreads(0, n)
    /\ threadID' = n
    /\ wstate' = [w \in WorkerIds |-> IF w < n THEN NewWorkerState ELSE "none"]
    /\ wpc' = [w \in WorkerIds |-> IF w < n THEN "start" ELSE "none"]
    /\ wtask' = [w \in WorkerIds |-> NoTask]
    /\ notifyPending' = 0
    /\ deqLog' = << >>
    /\ marked' = {}

\* tcp.h 120-129.
StartCall(n) ==
    /\ ~crashed
    /\ ctl = "idle"
    /\ IF StartIsNoop
       THEN /\ ctl' = "start_noop"
            /\ UNCHANGED << poolVars, wkVars, notifyPending, deqLog, marked,
                            running, poolUp, starts, apc >>
       ELSE /\ starts < MaxStarts
            /\ running' = TRUE
            /\ FreshPool(n)
            /\ poolUp' = TRUE
            /\ apc' = "check"
            /\ starts' = starts + 1
            /\ ctl' = "started"
    /\ UNCHANGED << crashed, rmLeft, rmIt, rmResult, enqCalls, enqResult, future,
                    execCount, lsnVars, nextId, clients, connVars, acId, cbVars,
                    apiVars, closeWakes, clients_mtx, ioVars >>

\* ---- stop ---------------------------------------------------------------
\* a stop that never takes the early return
StopNeverNoop == FALSE

\* tcp.h 132: running_.exchange(false) returned false.
StopIsNoop == ~running

\* tcp.h 131-134.
StopCall ==
    /\ ~crashed
    /\ ctl = "idle"
    /\ IF StopIsNoop
       THEN /\ ctl' = "stop_noop"
            /\ UNCHANGED running
       ELSE /\ running' = FALSE
            /\ ctl' = "st_close"
    /\ UNCHANGED << poolVars, wkVars, crashed, marked, rmLeft, rmIt, rmResult,
                    prodVars, histVars, lsnVars, nextId, clients, connVars,
                    accVars, poolUp, starts, cbVars, apiVars, closeWakes, clients_mtx, ioVars >>

\* tcp.h 135, socket.h 385-396.  Connections nobody accepted go with the
\* listening socket, unless a blocked ::accept keeps that socket alive.
StopCloseListener ==
    /\ ~crashed
    /\ ctl = "st_close"
    /\ listener' = "invalid"
    /\ pending' = IF apc = "accept" /\ ~closeWakes THEN pending ELSE 0
    /\ ctl' = "st_join"
    /\ UNCHANGED << poolVars, wkVars, crashed, marked, rmLeft, rmIt, rmResult,
                    prodVars, histVars, running, nextId, clients, connVars,
                    accVars, poolUp, starts, cbVars, apiVars, closeWakes, clients_mtx, ioVars >>

\* tcp.h 136-138: join returns when acceptLoop has returned.
StopJoin ==
    /\ ~crashed
    /\ ctl = "st_join"
    /\ apc = "exited"
    /\ apc' = "none"
    /\ ctl' = "st_clients"
    /\ UNCHANGED << poolVars, wkVars, crashed, marked, rmLeft, rmIt, rmResult,
                    prodVars, histVars, running, lsnVars, nextId, clients,
                    connVars, acId, poolUp, starts, cbVars, apiVars, closeWakes, clients_mtx, ioVars >>

\* Socket::close on every socket of a set (socket.h 385-396).
ClosedAll(S) == [c \in ClientIds |-> IF c \in S /\ sock[c] = "open" THEN "closed" ELSE sock[c]]

\* tcp.h 139-143, under clients_mtx_.
StopCloseClients ==
    /\ ~crashed
    /\ clients_mtx = "free"
    /\ ctl = "st_clients"
    /\ sock' = ClosedAll(clients)
    /\ clients' = {}
    /\ ctl' = "st_reset"
    /\ UNCHANGED << poolVars, wkVars, crashed, marked, rmLeft, rmIt, rmResult,
                    prodVars, histVars, running, lsnVars, nextId, peer, rd,
                    accVars, poolUp, starts, cbVars, apiVars, closeWakes, clients_mtx, ioVars >>

\* tcp.h 144: pool_.reset() enters ~ThreadPool (threadpool.h 59-62); the
\* destructor goes on with ShutdownNotify, ReleaseMembers and JoinWorkers.
StopPoolReset ==
    /\ ~crashed
    /\ ctl = "st_reset"
    /\ queue_mutex = NoOwner
    /\ stop' = TRUE
    /\ ctl' = "d_notify"
    /\ UNCHANGED << tasks, queue_mutex, released, wkVars, crashed, marked, rmLeft,
                    rmIt, rmResult, prodVars, histVars, srvVars, ioVars >>

\* tcp.h 144-145: pool_ is empty and stop() returns.
StopReturn ==
    /\ ~crashed
    /\ ctl = "done"
    /\ poolUp' = FALSE
    /\ ctl' = "idle"
    /\ UNCHANGED << poolVars, wkVars, crashed, marked, rmLeft, rmIt, rmResult,
                    prodVars, histVars, running, lsnVars, nextId, clients,
                    connVars, accVars, starts, cbVars, apiVars, closeWakes, clients_mtx, ioVars >>

\* a start() or stop() call that did nothing, or a start() that did its
\* work, returns to the caller.
CallReturn ==
    /\ ~crashed
    /\ ctl \in {"start_noop", "stop_noop", "started"}
    /\ ctl' = "idle"
    /\ UNCHANGED << poolVars, wkVars, crashed, marked, rmLeft, rmIt, rmResult,
                    prodVars, histVars, srvVars, ioVars >>

\* ---- acceptLoop (tcp.h 234-258) ------------------------------------------
\* tcp.h 235-236 and socket.h 200-203: the loop test, then accept() looks at
\* the descriptor.  Entered at the top of the loop and after enqueue returned.
AcceptCheck ==
    /\ ~crashed
    /\ apc = "check" \/ (apc = "notify" /\ notifyPending = 0)
    /\ apc' = IF ~running THEN "exited"
              ELSE IF listener = "invalid" THEN "sleep"
              ELSE "accept"
    /\ UNCHANGED << vars, running, lsnVars, nextId, clients, connVars, acId,
                    poolUp, starts, cbVars, apiVars, closeWakes, clients_mtx, ioVars >>

\* tcp.h 237-240: accept() gave nullptr; sleep 2 ms and continue.
AcceptSleep ==
    /\ ~crashed
    /\ apc = "sleep"
    /\ apc' = "check"
    /\ UNCHANGED << vars, running, lsnVars, nextId, clients, connVars, acId,
                    poolUp, starts, cbVars, apiVars, closeWakes, clients_mtx, ioVars >>

\* a counter that is read and not advanced
FetchAddStays(n) == n

\* tcp.h 243: the value of next_id_ after fetch_add(1).
FetchAdd(n) == n + 1

\* socket.h 211-218 and tcp.h 243: ::accept returns a connection, the Socket
\* is made, and next_id_.fetch_add gives the id.
AcceptReturn ==
    /\ ~crashed
    /\ apc = "accept"
    /\ pending > 0
    /\ KernelListening
    /\ pending' = pending - 1
    /\ acId' = nextId
    /\ nextId' = FetchAdd(nextId)
    /\ sock' = [sock EXCEPT ![nextId] = "open"]
    /\ peer' = [peer EXCEPT ![nextId] = "open"]
    /\ apc' = "insert"
    /\ UNCHANGED << vars, running, listener, clients, rd, poolUp, starts,
                    cbVars, apiVars, closeWakes, clients_mtx, ioVars >>

\* socket.h 212-214: ::accept fails because the descriptor was closed.
AcceptFail ==
    /\ ~crashed
    /\ apc = "accept"
    /\ listener = "invalid"
    /\ closeWakes
    /\ apc' = "sleep"
    /\ UNCHANGED << vars, running, lsnVars, nextId, clients, connVars, acId,
                    poolUp, starts, cbVars, apiVars, closeWakes, clients_mtx, ioVars >>

\* an accept loop that submits the read loop without calling on_connect_
AfterInsertSubmits == "enqueue"

\* tcp.h 249 follows 244-247.
AfterInsert == "onconnect"

\* tcp.h 244-247, under clients_mtx_.
AcceptInsert ==
    /\ ~crashed
    /\ clients_mtx = "free"
    /\ apc = "insert"
    /\ clients' = clients \cup {acId}
    /\ apc' = AfterInsert
    /\ UNCHANGED << vars, running, lsnVars, nextId, connVars, acId, poolUp,
                    starts, cbVars, apiVars, closeWakes, clients_mtx, ioVars >>

\* tcp.h 249.
AcceptOnConnect ==
    /\ ~crashed
    /\ apc = "onconnect"
    /\ onConn' = [onConn EXCEPT ![acId] = @ + 1]
    /\ apc' = "enqueue"
    /\ UNCHANGED << vars, running, lsnVars, nextId, clients, connVars, acId,
                    poolUp, starts, onDisc, apiVars, closeWakes, clients_mtx, ioVars >>

\* tcp.h 251-252 with threadpool.h 24-32: the task of connection id is
\* handleClient(id, client).  pool_ holds a pool for as long as the accept
\* thread lives, and nothing sets its stop flag before the thread is joined;
\* enqueue on a stopped pool throws out of the thread function.
AcceptEnqueue ==
    /\ ~crashed
    /\ apc = "enqueue"
    /\ poolUp
    /\ queue_mutex = NoOwner
    /\ tasks' = EnqueuedQueue(tasks, acId)
    /\ IF EnqueueRejects
       THEN /\ crashed' = TRUE
            /\ UNCHANGED << notifyPending, apc >>
       ELSE /\ notifyPending' = notifyPending + 1
            /\ apc' = "notify"
            /\ UNCHANGED crashed
    /\ UNCHANGED << stop, queue_mutex, released, wkVars, marked, ctlVars, enqCalls,
                    enqResult, histVars, running, lsnVars, nextId, clients,
                    connVars, acId, poolUp, starts, cbVars, apiVars, closeWakes, clients_mtx, ioVars >>

\* ---- handleClient (tcp.h 219-232), the body of a pool task ---------------
\* a read loop that goes on after an end of stream
LoopEndsOnError(r) == r < 0

\* tcp.h 224: `if (r <= 0) break;`
LoopEnds(r) == r <= 0

\* where the loop goes with the result r of receive.
AfterReceive(r) == IF LoopEnds(r) THEN "hc_disc" ELSE "hc_msg"

\* tcp.h 223-224 and socket.h 268-296: receive on a Socket that has no
\* descriptor returns -1 at once; otherwise the thread enters ::recv.
HcReceive(w) ==
    /\ ~crashed
    /\ wpc[w] = "run"
    /\ wpc' = [wpc EXCEPT ![w] = IF sock[wtask[w]] # "open" THEN AfterReceive(-1) ELSE "recv"]
    /\ UNCHANGED << poolVars, workers, threadID, wstate, wtask, crashed, marked,
                    ctlVars, prodVars, histVars, srvVars, ioVars >>

\* ::recv returns the r > 0 bytes the peer has written.  A descriptor closed
\* under the call stops it only where a close fails the blocked calls.
HcRecvData(w) ==
    /\ ~crashed
    /\ wpc[w] = "recv"
    /\ LET c == wtask[w] IN
        /\ peer[c] = "open"
        /\ sock[c] = "open" \/ ~closeWakes
        /\ \E r \in 1 .. PayloadLen :
            /\ rd' = [rd EXCEPT ![c] = r]
            /\ wpc' = [wpc EXCEPT ![w] = AfterReceive(r)]
    /\ UNCHANGED << poolVars, workers, threadID, wstate, wtask, crashed, marked,
                    ctlVars, prodVars, histVars, running, lsnVars, nextId,
                    clients, sock, peer, accVars, poolUp, starts, cbVars, apiVars,
                    closeWakes, clients_mtx, ioVars >>

\* what ::recv returns without data: 0 at the end of the peer's stream, -1
\* when the descriptor was closed under it and the platform fails the call;
\* no element means the call stays blocked.
RecvEndOutcomes(c) ==
    IF sock[c] # "open" /\ closeWakes THEN {-1}
    ELSE IF peer[c] = "closed" THEN {0}
    ELSE {}

HcRecvEnd(w) ==
    /\ ~crashed
    /\ wpc[w] = "recv"
    /\ \E r \in RecvEndOutcomes(wtask[w]) :
        wpc' = [wpc EXCEPT ![w] = AfterReceive(r)]
    /\ UNCHANGED << poolVars, workers, threadID, wstate, wtask, crashed, marked,
                    ctlVars, prodVars, histVars, srvVars, ioVars >>

\* tcp.h 225: on_message_(id, client, buf, r) is running while the thread is
\* at "hc_msg" with r = rd[id]; it returns and the loop goes back to receive.
HcOnMessage(w) ==
    /\ ~crashed
    /\ wpc[w] = "hc_msg"
    /\ rd' = [rd EXCEPT ![wtask[w]] = 0]
    /\ wpc' = [wpc EXCEPT ![w] = "run"]
    /\ UNCHANGED << poolVars, workers, threadID, wstate, wtask, crashed, marked,
                    ctlVars, prodVars, histVars, running, lsnVars, nextId,
                    clients, sock, peer, accVars, poolUp, starts, cbVars,
                    apiVars, closeWakes, clients_mtx, ioVars >>

\* tcp.h 227.
HcDisconnect(w) ==
    /\ ~crashed
    /\ wpc[w] = "hc_disc"
    /\ onDisc' = [onDisc EXCEPT ![wtask[w]] = @ + 1]
    /\ wpc' = [wpc EXCEPT ![w] = "hc_erase"]
    /\ UNCHANGED << poolVars, workers, threadID, wstate, wtask, crashed, marked,
                    ctlVars, prodVars, histVars, running, lsnVars, nextId,
                    clients, connVars, accVars, poolUp, starts, onConn,
                    apiVars, closeWakes, clients_mtx, ioVars >>

\* a read loop that leaves its entry in the registry
ErasedKeeps(reg, id) == reg

\* tcp.h 230: clients_.erase(id).
Erased(reg, id) == reg \ {id}

\* tcp.h 228-231, under clients_mtx_; the task returns to the worker.
HcErase(w) ==
    /\ ~crashed
    /\ clients_mtx = "free"
    /\ wpc[w] = "hc_erase"
    /\ clients' = Erased(clients, wtask[w])
    /\ wpc' = [wpc EXCEPT ![w] = AfterTask(FALSE)]
    /\ UNCHANGED << poolVars, workers, threadID, wstate, wtask, crashed, marked,
                    ctlVars, prodVars, histVars, running, lsnVars, nextId,
                    connVars, accVars, poolUp, starts, cbVars, apiVars, closeWakes, clients_mtx, ioVars >>

\* ---- sendTo / broadcast / closeClient -----------------------------------
\* a send_all that does not look at the descriptor
SendAllUnchecked(c) == {PayloadLen}

\* socket.h 298-314: what send_all(data, PayloadLen) can return on a
\* connection: -1 without a descriptor, everything when the peer reads, and
\* either of the two once the peer has closed.
SendAllOutcomes(c) ==
    IF sock[c] # "open" THEN {-1}
    ELSE IF peer[c] = "closed" THEN {-1, PayloadLen}
    ELSE {PayloadLen}

\* a comparison that takes any return value for a success
WroteAllAlways(r) == TRUE

\* tcp.h 157 and 172: send_all(data, len) == len.
WroteAll(r) == r = PayloadLen

\* a sendTo / broadcast that sends inside the scope of its lock_guard
LockKeptForSend == "api"

\* tcp.h 151-156 and 166-170: the scope of the lock_guard on clients_mtx_
\* ends before send_all is called.
LockAfterCopy == "free"

\* tcp.h 150-156.
SendToLookup(id) ==
    /\ ~crashed
    /\ clients_mtx = "free"
    /\ clients_mtx' = LockAfterCopy
    /\ api = "idle"
    /\ apiId' = id
    /\ IF id \notin clients
       THEN /\ api' = "sendto_false"
            /\ UNCHANGED apiSnap
       ELSE /\ api' = "sendto_send"
            /\ apiSnap' = {id}
    /\ UNCHANGED << vars, running, lsnVars, nextId, clients, connVars, accVars,
                    poolUp, starts, cbVars, apiTried, apiSent, apiRet, closeWakes, ioVars >>

\* tcp.h 157, outside the lock.
SendToSend ==
    /\ ~crashed
    /\ api = "sendto_send"
    /\ \E r \in SendAllOutcomes(apiId) :
        /\ apiTried' = {apiId}
        /\ apiSent' = IF r = PayloadLen THEN {apiId} ELSE {}
        /\ api' = IF WroteAll(r) THEN "sendto_true" ELSE "sendto_false"
    /\ UNCHANGED << vars, running, lsnVars, nextId, clients, connVars, accVars,
                    poolUp, starts, cbVars, apiId, apiSnap, apiRet, closeWakes, clients_mtx, ioVars >>

\* tcp.h 165-170: the copy made under clients_mtx_.
BroadcastSnap ==
    /\ ~crashed
    /\ clients_mtx = "free"
    /\ clients_mtx' = LockAfterCopy
    /\ api = "idle"
    /\ apiSnap' = clients
    /\ api' = "bc_send"
    /\ UNCHANGED << vars, running, lsnVars, nextId, clients, connVars, accVars,
                    poolUp, starts, cbVars, apiId, apiTried, apiSent, apiRet,
                    closeWakes, ioVars >>

\* a loop that gives up at the first send that fails
BroadcastStopsAtFailure(r) == IF WroteAll(r) THEN "bc_send" ELSE "bc_ret"

\* tcp.h 172: the loop goes to the next socket whatever send_all returned.
BroadcastContinues(r) == "bc_send"

\* tcp.h 171-172: one iteration of the loop over the copy.
BroadcastSend(c) ==
    /\ ~crashed
    /\ api = "bc_send"
    /\ c \in apiSnap \ apiTried
    /\ \E r \in SendAllOutcomes(c) :
        /\ apiTried' = apiTried \cup {c}
        /\ apiSent' = IF r = PayloadLen THEN apiSent \cup {c} ELSE apiSent
        /\ apiRet' = IF WroteAll(r) THEN apiRet + 1 ELSE apiRet
        /\ api' = BroadcastContinues(r)
    /\ UNCHANGED << vars, running, lsnVars, nextId, clients, connVars, accVars,
                    poolUp, starts, cbVars, apiId, apiSnap, closeWakes, clients_mtx, ioVars >>

\* tcp.h 173: the loop is over, `return ok`.
BroadcastReturn ==
    /\ ~crashed
    /\ api = "bc_send"
    /\ apiTried = apiSnap
    /\ api' = "bc_ret"
    /\ UNCHANGED << vars, running, lsnVars, nextId, clients, connVars, accVars,
                    poolUp, starts, cbVars, apiId, apiSnap, apiTried, apiSent,
                    apiRet, closeWakes, clients_mtx, ioVars >>

\* tcp.h 189-196.
CloseClientLookup(id) ==
    /\ ~crashed
    /\ clients_mtx = "free"
    /\ api = "idle"
    /\ apiId' = id
    /\ IF id \notin clients
       THEN /\ api' = "cc_false"
            /\ UNCHANGED clients
       ELSE /\ api' = "cc_close"
            /\ clients' = clients \ {id}
    /\ UNCHANGED << vars, running, lsnVars, nextId, connVars, accVars, poolUp,
                    starts, cbVars, apiSnap, apiTried, apiSent, apiRet, closeWakes, clients_mtx, ioVars >>

\* tcp.h 197-198.
CloseClientClose ==
    /\ ~crashed
    /\ api = "cc_close"
    /\ sock' = [sock EXCEPT ![apiId] = "closed"]
    /\ api' = "cc_true"
    /\ UNCHANGED << vars, running, lsnVars, nextId, clients, peer, rd,
                    accVars, poolUp, starts, cbVars, apiId, apiSnap, apiTried,
                    apiSent, apiRet, closeWakes, clients_mtx, ioVars >>

\* the call returns; its locals are gone.
ApiReturn ==
    /\ ~crashed
    /\ api \in {"sendto_false", "sendto_true", "bc_ret", "cc_false", "cc_true"}
    /\ api' = "idle"
    /\ apiId' = 0
    /\ apiSnap' = {}
    /\ apiTried' = {}
    /\ apiSent' = {}
    /\ apiRet' = 0
    /\ UNCHANGED << vars, running, lsnVars, nextId, clients, connVars, accVars,
                    poolUp, starts, cbVars, closeWakes, clients_mtx, ioVars >>

\* tcp.h 215: pool_ is an empty unique_ptr; no pool, no worker, no task.
NoPool ==
    /\ tasks = << >>
    /\ stop = FALSE
    /\ queue_mutex = NoOwner
    /\ workers = {}
    /\ threadID = 0
    /\ wstate = [w \in WorkerIds |-> "none"]
    /\ wpc = [w \in WorkerIds |-> "none"]
    /\ wtask = [w \in WorkerIds |-> NoTask]
    /\ released = FALSE
    /\ crashed = FALSE
    /\ ctl = "idle"
    /\ rmLeft = 0
    /\ rmIt = NoOwner
    /\ rmResult = "none"
    /\ notifyPending = 0
    /\ enqCalls = 0
    /\ enqResult = "none"
    /\ future = [t \in TaskIds |-> "none"]
    /\ execCount = [t \in TaskIds |-> 0]
    /\ deqLog = << >>
    /\ marked = {}

\* ---- the server as a system -----------------------------------------------
\* A TcpServer after construction (pool_ is empty, no thread exists) on
\* either kind of platform.
SrvInit ==
    /\ NoPool
    /\ ServerConstructed
    /\ closeWakes \in BOOLEAN
    /\ IoUnused

SrvNext ==
    \/ PeerConnect
    \/ \E c \in ClientIds : PeerClose(c)
    \/ Listen
    \/ \E n \in 1 .. MaxServerWorkers : StartCall(n)
    \/ StopCall
    \/ StopCloseListener
    \/ StopJoin
    \/ StopCloseClients
    \/ StopPoolReset
    \/ ShutdownNotify
    \/ ReleaseMembers
    \/ JoinWorkers
    \/ StopReturn
    \/ CallReturn
    \/ AcceptCheck
    \/ AcceptSleep
    \/ AcceptReturn
    \/ AcceptFail
    \/ AcceptInsert
    \/ AcceptOnConnect
    \/ AcceptEnqueue
    \/ EnqueueNotify
    \/ \E w \in WorkerIds : WorkerStart(w)
    \/ \E w \in WorkerIds : WorkerAcquire(w)
    \/ \E w \in WorkerIds : WorkerBlock(w)
    \/ \E w \in WorkerIds : SpuriousWake(w)
    \/ \E w \in WorkerIds : WorkerPreRun(w)
    \/ \E w \in WorkerIds : HcReceive(w)
    \/ \E w \in WorkerIds : HcRecvData(w)
    \/ \E w \in WorkerIds : HcRecvEnd(w)
    \/ \E w \in WorkerIds : HcOnMessage(w)
    \/ \E w \in WorkerIds : HcDisconnect(w)
    \/ \E w \in WorkerIds : HcErase(w)
    \/ \E w \in WorkerIds : WorkerPostRun(w)
    \/ \E w \in WorkerIds : WorkerUseAfterRelease(w)
    \/ \E id \in ClientIds : SendToLookup(id)
    \/ SendToSend
    \/ BroadcastSnap
    \/ \E c \in ClientIds : BroadcastSend(c)
    \/ BroadcastReturn
    \/ \E id \in ClientIds : CloseClientLookup(id)
    \/ CloseClientClose
    \/ ApiReturn

SrvSpec == SrvInit /\ [][SrvNext]_allVars

SrvTypeOK ==
    /\ running \in BOOLEAN /\ poolUp \in BOOLEAN /\ closeWakes \in BOOLEAN
    /\ listener \in {"invalid", "listening"}
    /\ pending \in 0 .. 1
    /\ nextId \in 1 .. (MaxClients + 1)
    /\ clients \subseteq ClientIds
    /\ sock \in [ClientIds -> {"none", "open", "closed"}]
    /\ peer \in [ClientIds -> {"none", "open", "closed"}]
    /\ rd \in [ClientIds -> 0 .. PayloadLen]
    /\ apc \in {"none", "check", "accept", "insert", "onconnect", "enqueue",
                "notify", "sleep", "exited"}
    /\ acId \in 0 .. MaxClients
    /\ starts \in 0 .. MaxStarts
    /\ onConn \in [ClientIds -> 0 .. 1]
    /\ onDisc \in [ClientIds -> 0 .. 1]
    /\ apiId \in 0 .. MaxClients
    /\ apiSnap \subseteq ClientIds /\ apiTried \subseteq apiSnap /\ apiSent \subseteq apiTried
    /\ apiRet \in 0 .. MaxClients
    /\ clients_mtx \in {"free", "api"}

\* Fair scheduling of the server's threads: a thread that can take a step
\* takes it, a thread waiting for queue_mutex gets it, ::accept hands over a
\* connection that is waiting.  Nothing is assumed of the peers (connecting,
\* writing, closing), of the callers of the API, or of spurious wake-ups.
SrvFairness ==
    /\ WF_allVars(StopCloseListener)
    /\ WF_allVars(StopJoin)
    /\ WF_allVars(StopCloseClients)
    /\ SF_allVars(StopPoolReset)
    /\ WF_allVars(ShutdownNotify)
    /\ WF_allVars(ReleaseMembers)
    /\ WF_allVars(JoinWorkers)
    /\ WF_allVars(StopReturn)
    /\ WF_allVars(CallReturn)
    /\ WF_allVars(AcceptCheck)
    /\ WF_allVars(AcceptSleep)
    /\ WF_allVars(AcceptReturn)
    /\ WF_allVars(AcceptFail)
    /\ WF_allVars(AcceptInsert)
    /\ WF_allVars(AcceptOnConnect)
    /\ SF_allVars(AcceptEnqueue)
    /\ WF_allVars(EnqueueNotify)
    /\ \A w \in WorkerIds :
        /\ WF_allVars(WorkerStart(w))
        /\ SF_allVars(WorkerAcquire(w))
        /\ WF_allVars(WorkerBlock(w))
        /\ WF_allVars(WorkerPreRun(w))
        /\ WF_allVars(HcReceive(w))
        /\ WF_allVars(HcRecvEnd(w))
        /\ WF_allVars(HcOnMessage(w))
        /\ WF_allVars(HcDisconnect(w))
        /\ WF_allVars(HcErase(w))
        /\ WF_allVars(WorkerPostRun(w))
    /\ WF_allVars(SendToSend)
    /\ WF_allVars(\E c \in ClientIds : BroadcastSend(c))
    /\ WF_allVars(BroadcastReturn)
    /\ WF_allVars(CloseClientClose)
    /\ WF_allVars(ApiReturn)

SrvFairSpec == SrvSpec /\ SrvFairness

\* ---- properties of TcpServer ----------------------------------------------
\* C12: a stop() that found the server running returns: from the moment it
\* has cleared running_ and is about to close the listener, the call
\* eventually comes back to its caller.
C12_StopReturns == (ctl = "st_close") ~> (ctl = "idle")

\* a stop() that found the server running has returned at least once: the
\* pool it tore down is gone, or a later start() has made another.
StopReturned == starts > 1 \/ (starts = 1 /\ ~poolUp)

\* C13: when stop() closes the registry's sockets every one of them is
\* closed and stays closed; when the call returns, running_ is false, the
\* listener is closed, the accept thread has exited and is joined, the
\* registry is empty and the pool is torn down; and once a stop() has
\* returned no step adds a registry entry.
C13_AfterStop ==
    [][ /\ (ctl = "st_clients" /\ ctl' = "st_reset") =>
                (clients' = {} /\ \A c \in clients : sock'[c] = "closed")
        /\ \A c \in ClientIds : sock[c] = "closed" => sock'[c] = "closed"
        /\ (ctl = "done" /\ ctl' = "idle") =>
                /\ ~running' /\ listener' = "invalid" /\ apc' = "none"
                /\ clients' = {}
                /\ ~poolUp' /\ workers' = {}
                /\ \A w \in WorkerIds : wpc'[w] \in {"none", "exited"}
        /\ StopReturned => clients' \subseteq clients ]_allVars

\* C14: a stop() on a server that is not running (never started, or already
\* stopped) takes the early return: the call changes nothing and comes back.
C14_StopIdempotent ==
    [][ /\ (ctl = "idle" /\ ctl' \in {"stop_noop", "st_close"} /\ ~running) =>
                (ctl' = "stop_noop" /\ UNCHANGED << srvVars, poolVars, wkVars >>)
        /\ (ctl = "stop_noop" /\ ctl' # ctl) =>
                (ctl' = "idle" /\ UNCHANGED << srvVars, poolVars, wkVars >>) ]_allVars

C14_Witness == ctl = "stop_noop" /\ StopReturned /\ listener = "invalid" /\ clients = {}

\* C15: over any sequence of start() and stop() calls at most one start()
\* creates a pool and an accept thread.
C15_StartOnce == starts <= 1

\* C16: each accepted connection gets the current value of next_id_, which
\* is larger than every id given before and was never given to a connection.
C16_IdsIncrease ==
    [][ (apc = "accept" /\ apc' = "insert") =>
            /\ acId' = nextId /\ acId' > acId /\ nextId' > acId'
            /\ sock[acId'] = "none" /\ acId' \notin clients
            /\ \A c \in ClientIds : sock[c] # "none" => c < acId' ]_allVars

C16_Witness == acId = 2 /\ apc = "onconnect" /\ 1 \notin clients /\ sock[1] = "closed"

\* connection c has a read-loop task: queued, or held by a worker.
Submitted(c) == c \in SeqToSet(tasks) \/ \E w \in workers : wtask[w] = c

\* the accept thread's steps for one connection come in the order of
\* tcp.h 243-252, and no read loop of c exists before on_connect_(c) was called.
AcceptOrder ==
    \A c \in ClientIds :
        /\ (apc = "insert" /\ acId = c) =>
                (sock[c] = "open" /\ c \notin clients /\ onConn[c] = 0 /\ ~Submitted(c))
        /\ (apc = "onconnect" /\ acId = c) => (onConn[c] = 0 /\ ~Submitted(c))
        /\ (apc = "enqueue" /\ acId = c) => (onConn[c] = 1 /\ ~Submitted(c))
        /\ (Submitted(c) \/ onDisc[c] > 0) => onConn[c] = 1

\* C17 as stated: the order assign, insert, onConnect, submit; onConnect(id)
\* before any onMessage(id) or onDisconnect(id); and id is in the registry
\* when onConnect(id) starts.
C17_RegisteredAtOnConnect ==
    /\ AcceptOrder
    /\ apc = "onconnect" => acId \in clients

\* C17: the order assign, insert, onConnect, submit; onConnect(id) before any
\* onMessage(id) or onDisconnect(id); and when onConnect(id) starts id has
\* been inserted, and is still in the registry unless a closeClient(id) made
\* by another thread has taken it out.
C17_AcceptOrder ==
    /\ AcceptOrder
    /\ apc = "onconnect" =>
            \/ acId \in clients
            \/ api = "cc_close" /\ apiId = acId
            \/ sock[acId] = "closed"

C17_Witness ==
    /\ apc = "notify" /\ acId \in clients /\ onConn[acId] = 1
    /\ acId \in SeqToSet(tasks)

\* C18: in the read loop of a connection the callback on_message_ runs only
\* with a positive receive result and every positive result goes to it; the
\* loop is left on a result <= 0; on_disconnect_ is called once, after the
\* last on_message_ and before the loop's erase, and no on_message_ follows it.
C18_ReadLoop ==
    /\ \A w \in workers :
        LET c == wtask[w] IN
            /\ wpc[w] = "hc_msg" => (rd[c] \in 1 .. PayloadLen /\ onDisc[c] = 0)
            /\ wpc[w] \in {"run", "recv", "hc_disc"} => (rd[c] = 0 /\ onDisc[c] = 0)
            /\ wpc[w] = "hc_erase" => onDisc[c] = 1
            /\ wpc[w] = "postrun" => (onDisc[c] = 1 /\ c \notin clients)
    /\ \A c \in ClientIds :
        /\ onDisc[c] <= 1
        /\ rd[c] > 0 => \E w \in workers : wtask[w] = c /\ wpc[w] = "hc_msg"
        /\ onDisc[c] = 1 =>
                ~\E w \in workers : wtask[w] = c /\ wpc[w] \in {"run", "recv", "hc_msg", "hc_disc"}

C18_Witness ==
    \E w \in workers :
        /\ wpc[w] = "hc_erase" /\ peer[wtask[w]] = "closed"
        /\ sock[wtask[w]] = "open" /\ wtask[w] \in clients

\* C19: sendTo(id, ..) with id not in the registry returns false without a
\* send; with id in the registry it calls send_all on that socket once and
\* returns true exactly when the whole payload was written.
C19_SendTo ==
    [][ /\ (api = "idle" /\ api' \in {"sendto_false", "sendto_send"}) =>
                IF apiId' \notin clients
                THEN api' = "sendto_false" /\ apiTried' = {} /\ apiSent' = {}
                ELSE api' = "sendto_send" /\ apiSnap' = {apiId'}
        /\ (api = "sendto_send" /\ api' # api) =>
                /\ api' \in {"sendto_true", "sendto_false"}
                /\ apiTried' = {apiId}
                /\ api' = "sendto_true" <=> apiSent' = {apiId} ]_allVars

C19_Witness == api = "sendto_false" /\ apiTried = {} /\ sock[apiId] = "closed"

\* what every broadcast does: the copy is the registry at the call, each
\* socket of the copy is tried once whatever the earlier sends returned, a
\* socket with a live peer is counted and one without a descriptor is not,
\* and the value returned is the number of sockets the payload went to whole.
BroadcastSteps ==
    /\ (api = "idle" /\ api' = "bc_send") =>
            (apiSnap' = clients /\ apiTried' = {} /\ apiRet' = 0)
    /\ (api = "bc_send" /\ apiTried' # apiTried) =>
            \E c \in apiSnap \ apiTried :
                /\ apiTried' = apiTried \cup {c}
                /\ api' = "bc_send"
                /\ apiRet' = Cardinality(apiSent')
                /\ (sock[c] = "open" /\ peer[c] = "open") => c \in apiSent'
                /\ sock[c] # "open" => c \notin apiSent'
    /\ (api = "bc_send" /\ api' = "bc_ret") =>
            (apiTried = apiSnap /\ apiRet' = Cardinality(apiSent))

\* C20 as stated: the count of whole sends over the snapshot, and a client
\* that has disconnected is not among those counted.
C20_DisconnectedNotCounted ==
    [][ /\ BroadcastSteps
        /\ \A c \in ClientIds :
            (api = "bc_send" /\ c \in apiTried' \ apiTried /\ peer[c] = "closed") =>
                c \notin apiSent' ]_allVars

\* C20: the count of whole sends over the snapshot, going on past failed
\* sends; every connected client of the snapshot is counted (2 of 2), and a
\* client that has disconnected is not counted once its read loop or a
\* closeClient has taken it out of the registry (1 of the 2); until then the
\* send to it may still succeed and be counted.
C20_Broadcast ==
    [][ /\ BroadcastSteps
        /\ \A c \in ClientIds :
            (api = "bc_send" /\ c \in apiTried' \ apiTried /\ c \in apiSent') =>
                c \in apiSnap /\ sock[c] = "open" ]_allVars

C20_Witness ==
    /\ api = "bc_ret" /\ apiRet = 1 /\ apiSnap = {2}
    /\ onDisc[1] = 1 /\ 1 \notin clients /\ peer[1] = "closed" /\ peer[2] = "open"

\* the calls on a closed descriptor: a send_all made by sendTo or broadcast
\* on a socket that is not open fails and is not counted; receive in a read
\* loop whose socket is closed gives -1 and the loop ends; accept on a closed
\* listener gives nullptr and the accept loop sleeps; none of them crashes.
ClosedStreamSteps ==
    /\ \A c \in ClientIds :
        (c \in apiTried' \ apiTried /\ sock[c] # "open") =>
            /\ c \notin apiSent'
            /\ apiRet' = apiRet
            /\ api = "sendto_send" => api' = "sendto_false"
            /\ ~crashed'
    /\ \A w \in workers :
        (wpc[w] = "run" /\ wpc'[w] # "run" /\ sock[wtask[w]] # "open") =>
            (wpc'[w] = "hc_disc" /\ rd' = rd /\ ~crashed')
    /\ (apc = "check" /\ apc' # apc /\ running /\ listener = "invalid") =>
            (apc' = "sleep" /\ acId' = acId /\ clients' = clients /\ ~crashed')

\* C21 as stated: the calls on a closed descriptor fail without a crash, and
\* a send of sendTo or broadcast to a connection that a disconnect,
\* closeClient or stop has taken out of the registry since the copy was made
\* reports a failure.
C21_RaceReportsFailure ==
    [][ /\ ClosedStreamSteps
        /\ \A c \in ClientIds :
            (c \in apiTried' \ apiTried /\ c \notin clients) => c \notin apiSent' ]_allVars

\* C21: the calls on a closed descriptor fail without a crash, so a send of
\* sendTo or broadcast that comes after closeClient or stop closed the socket
\* reports a failure; a send that comes after the peer's disconnect took the
\* entry out of the registry finds the socket of its copy still open, and it
\* reports a failure only if the OS send fails.
C21_ClosedStreamFails ==
    [][ /\ ClosedStreamSteps
        /\ \A c \in ClientIds :
            (c \in apiTried' \ apiTried /\ c \notin clients /\ c \in apiSent') =>
                (sock[c] = "open" /\ onDisc[c] = 1) ]_allVars

C21_Witness ==
    /\ api = "sendto_false" /\ apiTried = {apiId} /\ apiSnap = {apiId}
    /\ sock[apiId] = "closed" /\ StopReturned
    /\ \E w \in WorkerIds : wpc[w] = "exited"

Inserted(c) == sock[c] # "none" /\ ~(apc = "insert" /\ acId = c)

\* the read loop of c has terminated: handleClient has called on_disconnect_
\* and erased (tcp.h 227-231).
LoopDone(c) == onDisc[c] = 1 /\ ~\E w \in WorkerIds : wtask[w] = c /\ wpc[w] = "hc_erase"

\* C30 as stated: the id of an accepted connection is in the registry at
\* every point until its read loop has terminated, and absent afterwards.
C30_EntryUntilLoopEnds ==
    \A c \in ClientIds :
        /\ (Inserted(c) /\ ~LoopDone(c)) => c \in clients
        /\ LoopDone(c) => c \notin clients

\* C30: the id of an accepted connection is in the registry from its insert
\* until the first of: the end of its read loop, a closeClient(id), and a
\* stop(); the last two take the entry out while the read loop may still be
\* running and close the socket.  After the read loop has terminated the id
\* is absent, and an id is in the registry only after its insert.
C30_RegistryEntry ==
    \A c \in ClientIds :
        /\ (Inserted(c) /\ ~LoopDone(c) /\ c \notin clients) =>
                (sock[c] = "closed" \/ (api = "cc_close" /\ apiId = c))
        /\ LoopDone(c) => c \notin clients
        /\ c \in clients => Inserted(c)

C30_Witness ==
    \E c \in ClientIds :
        /\ LoopDone(c) /\ c \notin clients /\ sock[c] = "open"
        /\ \E d \in ClientIds : d \in clients /\ \E w \in workers : wtask[w] = d /\ wpc[w] = "recv"

\* ==== TcpClient framing over one connection (tcp.h 26-92) ==================
\* The sending end runs sendFrame (proto = "frame") or send (proto = "raw")
\* and may close; the receiving end runs recvFrame or receive(n).  Every
\* ::send and ::recv is a step of its own, so the transport splits and merges
\* the bytes in every way.  Each end gives the connection up at the first of
\* its calls that fails on the stream; a recvFrame that failed in
\* wait_readable has read nothing, and the receiver may call again.

\* the payloads handed to sendFrame: up to MaxFrameLen bytes of value 0 or 1
Payloads == UNION { [1 .. n -> {0, 1}] : n \in 0 .. MaxFrameLen }

\* tests/test_main.cpp 86 and 99: the reply and the length asked for.
Pong == << 112, 111, 110, 103 >>
RecvLen == 16

\* tcp.h 59: the bytes of `be = htonl(len)` in memory, most significant first.
Be32(n) == << (n \div 16777216) % 256, (n \div 65536) % 256, (n \div 256) % 256, n % 256 >>

\* tcp.h 71: ntohl of the four bytes read into `be`.
FromBe32(b) == b[1] * 16777216 + b[2] * 65536 + b[3] * 256 + b[4]

\* a resize that leaves the vector as it is
ResizedKeeps(v, n) == v

\* std::vector::resize(n): the first elements stay, new ones are 0.
Resized(v, n) == [i \in 1 .. n |-> IF i <= Len(v) THEN v[i] ELSE 0]

\* socket.h 324: ::recv(sockfd, p + got, len - got): buf with the bytes of
\* chunk stored from offset got on.
Stored(buf, got, chunk) ==
    [i \in 1 .. Len(buf) |->
        IF i > got /\ i <= got + Len(chunk) THEN chunk[i - got] ELSE buf[i]]

\* ---- the sending end -----------------------------------------------------
\* tcp.h 58-60: sendFrame(data, len) starts with send_all(&be, 4).
SendFrameCall(p) ==
    /\ proto = "frame"
    /\ spc = "idle"
    /\ sres # "false"
    /\ Len(okFrames) < MaxFrames
    /\ spc' = "hdr"
    /\ sarg' = p
    /\ sbuf' = Be32(Len(p))
    /\ ssent' = 0
    /\ put' = << >>
    /\ sos' = "none"
    /\ UNCHANGED << vars, srvVars, proto, wire, wireEnd, sfd, sall, sres, okFrames,
                    rcvVars, hdlVars >>

\* tcp.h 35-38: send(data, length) is send_all(data, length) == length.
SendCall ==
    /\ proto = "raw"
    /\ spc = "idle"
    /\ sres = "none"
    /\ spc' = "raw"
    /\ sarg' = Pong
    /\ sbuf' = Pong
    /\ ssent' = 0
    /\ put' = << >>
    /\ sos' = "none"
    /\ UNCHANGED << vars, srvVars, proto, wire, wireEnd, sfd, sall, sres, okFrames,
                    rcvVars, hdlVars >>

\* what one ::send of the loop can do: write r >= 1 of the bytes left, be
\* interrupted, or fail.  (::send gives 0 only for a request of 0 bytes.)
SendOutcomes ==
    { << "ok", r >> : r \in 1 .. (Len(sbuf) - ssent) } \cup { << "eintr", 0 >>, << "err", 0 >> }

\* a loop that gives up when a call is interrupted
SendAllFailsOnEintr(o) == o \in {"err", "eintr"}

\* socket.h 304-307: EINTR goes round the loop again, another error ends it.
SendAllFails(o) == o = "err"

\* a header test that takes -1 for a success
HeaderFailedNever(v) == FALSE

\* tcp.h 60: `if (socket_.send_all(&be, 4) < 0) return false;`
HeaderFailed(v) == v < 0

\* socket.h 298-314 with tcp.h 35-38 and 58-63: one pass of the loop of
\* send_all and, when send_all returns v, the rest of the caller: after the
\* header, false on a failure, true for an empty payload, else the body's
\* send_all; after the body or a raw send, v == len.
SendAllStep ==
    /\ spc \in {"hdr", "body", "raw"}
    /\ \E oc \in (IF sfd = "open" THEN SendOutcomes ELSE {<< "invalid", 0 >>}) :
        LET o == oc[1]
            r == oc[2]
            chunk == SubSeq(sbuf, ssent + 1, ssent + r)
            fails == o = "invalid" \/ SendAllFails(o)
            returns == fails \/ ssent + r = Len(sbuf)
            v == IF fails THEN -1 ELSE ssent + r
            toBody == spc = "hdr" /\ ~HeaderFailed(v) /\ Len(sarg) > 0
            ok == IF spc = "hdr" THEN ~HeaderFailed(v) ELSE v = Len(sarg)
        IN  /\ sos' = o
            /\ wire' = wire \o chunk
            /\ put' = put \o chunk
            /\ IF ~returns
               THEN /\ ssent' = ssent + r
                    /\ UNCHANGED << spc, sbuf, sall, sres, okFrames >>
               ELSE /\ sall' = v
                    /\ IF toBody
                       THEN /\ spc' = "body"
                            /\ sbuf' = sarg
                            /\ ssent' = 0
                            /\ UNCHANGED << sres, okFrames >>
                       ELSE /\ spc' = "idle"
                            /\ ssent' = ssent + r
                            /\ sres' = IF ok THEN "true" ELSE "false"
                            /\ okFrames' = IF ok THEN Append(okFrames, sarg) ELSE okFrames
                            /\ UNCHANGED sbuf
    /\ UNCHANGED << vars, srvVars, proto, wireEnd, sfd, sarg, rcvVars, hdlVars >>

\* tcp.h 84-86 and socket.h 385-396: close() between two calls; the peer
\* reads what was written and then the end of the stream.
SenderClose ==
    /\ spc = "idle"
    /\ sfd = "open"
    /\ sfd' = "invalid"
    /\ wireEnd' = TRUE
    /\ UNCHANGED << vars, srvVars, proto, wire, spc, sarg, sbuf, ssent, sos, sall, put,
                    sres, okFrames, rcvVars, hdlVars >>

\* ---- the receiving end ---------------------------------------------------
\* tcp.h 67-68 and 77-79: recvFrame starts with wait_readable; the string
\* overload calls the vector overload on a local, empty `buf`.
RecvFrameCall(ov) ==
    /\ proto = "frame"
    /\ rpc = "idle"
    /\ rres # "false" \/ ros = "none"
    /\ Len(gotFrames) < MaxFrames
    /\ rpc' = "wait"
    /\ rov' = ov
    /\ out0' = out
    /\ ros' = "none"
    /\ UNCHANGED << vars, srvVars, proto, wire, wireEnd, sndVars, rbuf, rneed, rgot,
                    rall, out, rres, gotFrames, timedOut, hdlVars >>

\* a wait that throws away what has arrived
AfterSelectDrains(w) == << >>

\* socket.h 351-354: select looks at the socket and reads nothing: the
\* stream behind a wait_readable on a stream w.
AfterSelect(w) == w

\* socket.h 345-356 and tcp.h 68-70: select says readable when bytes or the
\* end of the stream are there, and recv_exact(&be, 4) starts with be = 0;
\* select gives up on its timeout or on a signal, and recvFrame returns false.
WaitReadable ==
    /\ rpc = "wait"
    /\ \/ /\ wire # << >> \/ wireEnd
          /\ rpc' = "hdr"
          /\ rbuf' = << 0, 0, 0, 0 >>
          /\ rneed' = 4
          /\ rgot' = 0
          /\ UNCHANGED << rres, timedOut >>
       \/ /\ rpc' = "idle"
          /\ rres' = "false"
          /\ timedOut' = TRUE
          /\ UNCHANGED << rbuf, rneed, rgot >>
    /\ wire' = AfterSelect(wire)
    /\ UNCHANGED << vars, srvVars, proto, wireEnd, sndVars, rov, ros, rall, out,
                    out0, gotFrames, hdlVars >>

\* tcp.h 48-52: receive(length) reads into a local string of that size.
ReceiveCall ==
    /\ proto = "raw"
    /\ rpc = "idle"
    /\ rres = "none"
    /\ rpc' = "raw"
    /\ rbuf' = Resized(<< >>, RecvLen)
    /\ rneed' = RecvLen
    /\ rgot' = 0
    /\ ros' = "none"
    /\ UNCHANGED << vars, srvVars, proto, wire, wireEnd, sndVars, rov, rall, out, out0,
                    rres, gotFrames, timedOut, hdlVars >>

\* what one ::recv of the loop can do: return r >= 1 of the bytes that have
\* arrived, return 0 at the end of the stream, be interrupted, or fail (the
\* SO_RCVTIMEO of tcp.h 31 ran out, or the connection broke).
RecvOutcomes ==
    { << "ok", r >> : r \in 1 .. (IF Len(wire) < rneed - rgot THEN Len(wire) ELSE rneed - rgot) }
    \cup (IF wire = << >> /\ wireEnd THEN { << "eof", 0 >> } ELSE {})
    \cup { << "eintr", 0 >>, << "err", 0 >> }

\* a loop that gives up when a call is interrupted
RecvExactFailsOnEintr(o) == o \in {"err", "eintr"}

\* socket.h 322-325: EINTR goes round the loop again, another error ends it.
RecvExactFails(o) == o = "err"

\* socket.h 316-332 with tcp.h 48-55 and 70-74: one pass of the loop of
\* recv_exact and, when recv_exact returns v, the rest of the caller.  After
\* the header: false when v <= 0, else `out` (the caller's vector, or the
\* local buf of the string overload) is resized to ntohl(be) and the body is
\* read into it; true at once for need == 0.  After the body: v == need, and
\* the string overload assigns buf to the caller's string on true.  After the
\* read of receive(n): the empty string when v <= 0, else the v bytes.
RecvExactStep ==
    /\ rpc \in {"hdr", "body", "raw"}
    /\ \E oc \in RecvOutcomes :
        LET o == oc[1]
            r == oc[2]
            nbuf == Stored(rbuf, rgot, SubSeq(wire, 1, r))
            fails == RecvExactFails(o)
            eof == o = "eof"
            returns == fails \/ eof \/ rgot + r = rneed
            v == IF fails THEN -1 ELSE IF eof THEN 0 ELSE rgot + r
            need == FromBe32(nbuf)
            dst == Resized(IF rov = "vector" THEN out ELSE << >>, need)
        IN  /\ ros' = o
            /\ wire' = SubSeq(wire, r + 1, Len(wire))
            /\ IF ~returns
               THEN /\ rbuf' = nbuf
                    /\ rgot' = rgot + r
                    /\ out' = IF rpc = "body" /\ rov = "vector" THEN nbuf ELSE out
                    /\ UNCHANGED << rpc, rneed, rall, rres, gotFrames >>
               ELSE /\ rall' = v
                    /\ IF rpc = "hdr" /\ v > 0 /\ need > 0
                       THEN /\ rpc' = "body"
                            /\ rbuf' = dst
                            /\ rneed' = need
                            /\ rgot' = 0
                            /\ out' = IF rov = "vector" THEN dst ELSE out
                            /\ UNCHANGED << rres, gotFrames >>
                       ELSE /\ rpc' = "idle"
                            /\ rbuf' = nbuf
                            /\ rgot' = rgot + r
                            /\ UNCHANGED rneed
                            /\ IF rpc = "raw"
                               THEN /\ out' = IF v <= 0 THEN << >> ELSE SubSeq(nbuf, 1, v)
                                    /\ rres' = "returned"
                                    /\ UNCHANGED gotFrames
                               ELSE IF rpc = "hdr"
                               THEN /\ out' = IF v > 0 THEN dst ELSE out
                                    /\ rres' = IF v > 0 THEN "true" ELSE "false"
                                    /\ gotFrames' = IF v > 0 THEN Append(gotFrames, dst) ELSE gotFrames
                               ELSE /\ out' = IF rov = "vector" \/ v = rneed THEN nbuf ELSE out
                                    /\ rres' = IF v = rneed THEN "true" ELSE "false"
                                    /\ gotFrames' = IF v = rneed THEN Append(gotFrames, nbuf) ELSE gotFrames
    /\ UNCHANGED << vars, srvVars, proto, wireEnd, sndVars, rov, out0, timedOut,
                    hdlVars >>

\* ---- the connection as a system ------------------------------------------
\* Two connected ends and the way their callers use them; no pool and no
\* server take part.
IoInit ==
    /\ NoPool
    /\ ServerUnused
    /\ NoSockets
    /\ Connected
    /\ proto \in {"frame", "raw"}

IoNext ==
    \/ \E p \in Payloads : SendFrameCall(p)
    \/ SendCall
    \/ SendAllStep
    \/ SenderClose
    \/ \E ov \in {"vector", "string"} : RecvFrameCall(ov)
    \/ WaitReadable
    \/ ReceiveCall
    \/ RecvExactStep

IoSpec == IoInit /\ [][IoNext]_<< allVars, ioVars >>

\* C22: every recvFrame that returns true hands out the payload of the next
\* frame in the order of the sendFrame calls that returned true, the empty
\* payload included, whatever the chunks of the ::send and ::recv calls were;
\* a recvFrame returns false only when wait_readable gave up or a ::recv
\* failed, timed out or met the end of the stream.
C22_FrameRoundTrip ==
    [][ (proto = "frame" /\ rpc # "idle" /\ rpc' = "idle") =>
            IF rres' = "true"
            THEN /\ gotFrames' = Append(gotFrames, out')
                 /\ Len(gotFrames') <= Len(okFrames)
                 /\ out' = okFrames[Len(gotFrames')]
            ELSE /\ rres' = "false"
                 /\ gotFrames' = gotFrames
                 /\ rpc = "wait" \/ ros' \in {"err", "eof"} ]_ioVars

C22_Witness ==
    /\ gotFrames = okFrames /\ Len(gotFrames) = MaxFrames
    /\ gotFrames[1] = << >> /\ gotFrames[2] = << 1, 0 >>
    /\ rov = "string" /\ out = << 1, 0 >> /\ rres = "true"

\* C23 as stated: a recvFrame that has returned false has left the caller's
\* buffer with the contents and the size it had at the call.
C23_FailureLeavesBuffer ==
    (proto = "frame" /\ rpc = "idle" /\ rres = "false") => out = out0

\* C24: when sendFrame returns true the call has written 4 + len bytes: four
\* bytes whose big-endian value is len, then the len bytes of the payload
\* (none for len = 0); and every byte a sendFrame writes goes to the end of
\* the stream in that order.
C24_WireFormat ==
    [][ /\ (proto = "frame" /\ spc # "idle" /\ spc' = "idle" /\ sres' = "true") =>
                /\ Len(put') = 4 + Len(sarg)
                /\ \A i \in 1 .. 4 : put'[i] \in 0 .. 255
                /\ put'[1] * 16777216 + put'[2] * 65536 + put'[3] * 256 + put'[4] = Len(sarg)
                /\ SubSeq(put', 5, Len(put')) = sarg
        /\ (proto = "frame" /\ Len(put') > Len(put)) =>
                /\ SubSeq(put', 1, Len(put)) = put
                /\ wire' = wire \o SubSeq(put', Len(put) + 1, Len(put')) ]_ioVars

C24_Witness ==
    /\ proto = "frame" /\ spc = "idle" /\ sres = "true"
    /\ okFrames = << << >>, << 0, 1 >> >> /\ put = << 0, 0, 0, 2, 0, 1 >>

linkVars == << proto, wire, wireEnd, sndVars, rcvVars, fdVars >>

\* socket.h 385-396: closeSocket() calls ::close on a valid sockfd only.
Released(rel, h) == IF h = NoHandle THEN rel ELSE [rel EXCEPT ![h] = @ + 1]

\* a move that leaves its handle in the source as well
MovedFromKeeps(h) == h

\* socket.h 102 and 109: other.sockfd = invalid_socket.
MovedFrom(h) == NoHandle

\* socket.h 89-93: Socket() holds no handle.
Construct(o) ==
    /\ hlive[o] = "none"
    /\ hlive' = [hlive EXCEPT ![o] = "live"]
    /\ UNCHANGED << vars, srvVars, linkVars, hown, hrel, hshut, hnext >>

\* socket.h 142-162: ensureSocket() on a Socket without a handle stores the
\* descriptor that ::socket returns; with a handle it changes nothing.
EnsureSocket(o) ==
    /\ hlive[o] = "live"
    /\ hown[o] = NoHandle
    /\ hnext <= MaxHandles
    /\ hown' = [hown EXCEPT ![o] = hnext]
    /\ hnext' = hnext + 1
    /\ UNCHANGED << vars, srvVars, linkVars, hlive, hrel, hshut >>

\* socket.h 95-99 and 211-218: accept() wraps the descriptor that ::accept
\* returned in a new Socket.
AcceptedSocket(o) ==
    /\ hlive[o] = "none"
    /\ hnext <= MaxHandles
    /\ hlive' = [hlive EXCEPT ![o] = "live"]
    /\ hown' = [hown EXCEPT ![o] = hnext]
    /\ hnext' = hnext + 1
    /\ UNCHANGED << vars, srvVars, linkVars, hrel, hshut >>

\* socket.h 370-372 and 385-396: close().
CloseSocket(o) ==
    /\ hlive[o] = "live"
    /\ hrel' = Released(hrel, hown[o])
    /\ hown' = [hown EXCEPT ![o] = NoHandle]
    /\ UNCHANGED << vars, srvVars, linkVars, hlive, hshut, hnext >>

\* socket.h 374-383: shutdown() calls ::shutdown on a valid sockfd and
\* leaves sockfd as it is.
ShutdownSocket(o) ==
    /\ hlive[o] = "live"
    /\ hshut' = IF hown[o] = NoHandle THEN hshut ELSE hshut \cup {hown[o]}
    /\ UNCHANGED << vars, srvVars, linkVars, hown, hlive, hrel, hnext >>

\* socket.h 101-103: Socket(Socket&& other).
MoveConstruct(o, other) ==
    /\ hlive[o] = "none"
    /\ hlive[other] = "live"
    /\ hlive' = [hlive EXCEPT ![o] = "live"]
    /\ hown' = [hown EXCEPT ![o] = hown[other], ![other] = MovedFrom(hown[other])]
    /\ UNCHANGED << vars, srvVars, linkVars, hrel, hshut, hnext >>

\* socket.h 105-112: operator=(Socket&& other); nothing is done when other
\* is *this.
MoveAssign(o, other) ==
    /\ hlive[o] = "live"
    /\ hlive[other] = "live"
    /\ IF o # other
       THEN /\ hrel' = Released(hrel, hown[o])
            /\ hown' = [hown EXCEPT ![o] = hown[other], ![other] = MovedFrom(hown[other])]
       ELSE UNCHANGED << hrel, hown >>
    /\ UNCHANGED << vars, srvVars, linkVars, hlive, hshut, hnext >>

\* socket.h 114-116: ~Socket().
Destroy(o) ==
    /\ hlive[o] = "live"
    /\ hrel' = Released(hrel, hown[o])
    /\ hown' = [hown EXCEPT ![o] = NoHandle]
    /\ hlive' = [hlive EXCEPT ![o] = "dead"]
    /\ UNCHANGED << vars, srvVars, linkVars, hshut, hnext >>

HdlInit == NoPool /\ ServerUnused /\ IoUnused

HdlNext ==
    \E o \in SocketObjs :
        \/ Construct(o)
        \/ EnsureSocket(o)
        \/ AcceptedSocket(o)
        \/ CloseSocket(o)
        \/ ShutdownSocket(o)
        \/ Destroy(o)
        \/ \E other \in SocketObjs : MoveConstruct(o, other) \/ MoveAssign(o, other)

HdlSpec == HdlInit /\ [][HdlNext]_<< allVars, ioVars >>

\* the live Socket objects whose sockfd is h.
Holders(h) == { o \in SocketObjs : hlive[o] = "live" /\ hown[o] = h }

\* C25: a handle the OS gave out is either held by exactly one live Socket
\* and not released, or held by none and released once (so no handle is
\* released twice, no two Sockets hold the same handle, and a moved-from or
\* destroyed Socket holds none); a release is always the first release of a
\* handle that a live Socket held, so close() on a Socket without a handle
\* releases nothing; shutdown() releases nothing and takes no handle away,
\* and the close() after it releases the handle once.
C25_ReleasedOnce ==
    [][ /\ \A h \in Handles :
            /\ h < hnext' => Cardinality(Holders(h)') + hrel'[h] = 1
            /\ h >= hnext' => (Holders(h)' = {} /\ hrel'[h] = 0)
            /\ hrel'[h] >= hrel[h]
        /\ \A o \in SocketObjs : hlive'[o] # "live" => hown'[o] = NoHandle
        /\ hshut' # hshut => (hrel' = hrel /\ hown' = hown)
        /\ \A h \in Handles :
            hrel'[h] # hrel[h] =>
                (hrel'[h] = 1 /\ Cardinality(Holders(h)) = 1 /\ Holders(h)' = {}) ]_hdlVars

C25_Witness ==
    /\ hnext = 3 /\ hrel = [h \in Handles |-> 1] /\ hshut = {2}
    /\ hlive = [o \in SocketObjs |-> IF o = 1 THEN "live" ELSE "dead"]

C32_QueueEmptyAfterShutdown ==
    /\ ctl = "done" => tasks = << >>
    /\ released => (tasks = << >> /\ \A t \in TaskIds : future[t] = "broken" => execCount[t] = 0)

C32_Witness ==
    /\ ctl = "done" /\ tasks = << >> /\ rmResult = "ok" /\ threadID > 0
    /\ \A w \in WorkerIds : wpc[w] \in {"none", "exited"} /\ wstate[w] \in {"none", "Stopped"}
    /\ \A t \in TaskIds : future[t] = "broken"

\* C33: when ~ThreadPool has completed, every worker thread the pool ever
\* started has left its lambda: none is waiting on the queue, about to take
\* the queue lock, or running a task; and a Worker leaves the map only when
\* its thread has exited.
C33_TeardownAfterWorkersExit ==
    [][ /\ ctl' = "done" => \A w \in WorkerIds : wpc'[w] \in {"none", "exited"}
        /\ \A w \in workers \ workers' : wpc[w] = "exited" /\ wpc'[w] = "exited" ]_vars

C33_Witness ==
    /\ ctl = "done" /\ workers = {} /\ threadID = MaxThreadID
    /\ \A w \in WorkerIds : wpc[w] = "exited"
    /\ \E t \in TaskIds : execCount[t] = 1 /\ \E i \in 1 .. Len(deqLog) : deqLog[i].stop

\* C34 as stated: once ~ThreadPool has destroyed condition, queue_mutex and
\* tasks, no worker thread is still to take the queue lock, read the queue
\* or wait on the condition, and none has died on such a use.
C34_MembersOutliveWorkers ==
    released => (~crashed /\ \A w \in WorkerIds : wpc[w] \notin {"start", "lock", "towait", "blocked"})

\* C35 as stated: on a server started with at least one worker,
\* on_disconnect_(id) is called at most once and never before
\* on_connect_(id), and when stop() returns it has been called for every
\* connection that got on_connect_(id), a connection whose read-loop task was
\* still in the pool's queue when stop() began included.
C35_DisconnectByStopReturn ==
    [][ /\ \A c \in ClientIds : onDisc'[c] <= 1 /\ (onDisc'[c] > 0 => onConn'[c] = 1)
        /\ (ctl = "done" /\ ctl' = "idle") =>
                \A c \in ClientIds : onConn[c] = 1 => onDisc[c] = 1 ]_allVars

\* C36 as stated: once a stop() has returned no callback is running and no
\* step calls on_connect_, on_message_ or on_disconnect_.
C36_NoCallbackAfterStop ==
    [][ StopReturned =>
            /\ onConn' = onConn /\ onDisc' = onDisc /\ rd' = rd
            /\ apc # "onconnect"
            /\ \A w \in WorkerIds : wpc[w] \notin {"hc_msg", "hc_disc"} ]_allVars

\* C37: on a server started with W workers at most W read loops run at a
\* time, each on its own worker thread.  A connection whose read-loop task
\* waits in the pool's queue has been inserted and has had on_connect_, and
\* none of its data has been received or given to on_message_.  A task
\* leaves the queue only as the head of the queue, to a worker that holds no
\* read loop (or when the pool is torn down), and the queue holds the
\* connections in accept order, so waiting read loops start in that order.
C37_ReadLoopsBounded ==
    [][ /\ Cardinality({c \in ClientIds : \E w \in workers : wtask[w] = c}) <= threadID
        /\ \A w1, w2 \in workers : (wtask[w1] = wtask[w2] /\ wtask[w1] # NoTask) => w1 = w2
        /\ \A i, j \in 1 .. Len(tasks) : i < j => tasks[i] < tasks[j]
        /\ \A c \in SeqToSet(tasks) :
            /\ Inserted(c) /\ onConn[c] = 1 /\ onDisc[c] = 0 /\ rd[c] = 0
            /\ ~\E w \in workers : wtask[w] = c
            /\ c \notin SeqToSet(tasks') =>
                    \/ released' /\ tasks' = << >>
                    \/ /\ c = Head(tasks) /\ tasks' = Tail(tasks)
                       /\ \E w \in workers :
                            wpc[w] = "lock" /\ wtask[w] = NoTask /\ wtask'[w] = c ]_allVars

C37_Witness ==
    /\ threadID = 1 /\ tasks = << 2 >> /\ 2 \in clients /\ onConn[2] = 1
    /\ peer[2] = "open" /\ sock[2] = "open"
    /\ \E w \in workers : wtask[w] = 1 /\ wpc[w] = "hc_msg"

\* C39: sendFrame returns true only after the call has written the 4 bytes
\* of the header and then the len bytes of the payload; when the send_all
\* of the header does not return 4, sendFrame returns false at once and what
\* the call has written is less than a header: no payload byte.  The body
\* is started only behind a complete header, and a sendFrame that fails in
\* the body has written less than the whole frame.
C39_SendFrameResult ==
    [][ (proto = "frame" /\ spc # "idle") =>
            LET hdr == Be32(Len(sarg)) IN
            /\ (spc' = "idle" /\ sres' = "true") => put' = hdr \o sarg
            /\ (spc = "hdr" /\ spc' # "hdr" /\ sall' # 4) =>
                    /\ spc' = "idle" /\ sres' = "false"
                    /\ Len(put') < 4 /\ put' = SubSeq(hdr, 1, Len(put'))
            /\ spc' = "body" => (SubSeq(put', 1, 4) = hdr /\ Len(sarg) > 0)
            /\ (spc = "body" /\ spc' = "idle" /\ sres' = "false") =>
                    Len(put') < 4 + Len(sarg) ]_ioVars

C39_Witness ==
    /\ proto = "frame" /\ spc = "idle" /\ sres = "false" /\ sall = -1
    /\ Len(sarg) = 2 /\ put = << 0, 0 >> /\ okFrames = << << 1 >> >>

\* C40: a recvFrame that returns false from wait_readable has taken no byte
\* from the stream, has changed neither the caller's buffer nor either end of
\* the connection, and the receiver can call again; a recvFrame that
\* returns true after such a failure hands out, complete, the next frame in
\* the order of the sender's frames.
C40_TimeoutKeepsStream ==
    [][ /\ (proto = "frame" /\ rpc = "wait" /\ rpc' = "idle") =>
                /\ rres' = "false"
                /\ wire' = wire /\ wireEnd' = wireEnd /\ sfd' = sfd
                /\ out' = out /\ gotFrames' = gotFrames
                /\ (Len(gotFrames) < MaxFrames) =>
                        \A ov \in {"vector", "string"} : (ENABLED RecvFrameCall(ov))'
        /\ (proto = "frame" /\ rres = "false" /\ rpc # "idle" /\ rpc' = "idle"
                /\ rres' = "true") =>
                /\ gotFrames' = Append(gotFrames, out')
                /\ Len(gotFrames') <= Len(okFrames)
                /\ out' = okFrames[Len(gotFrames')] ]_ioVars

C40_Witness ==
    /\ proto = "frame" /\ timedOut /\ rpc = "idle" /\ rres = "true"
    /\ gotFrames = << << 1, 0 >> >> /\ out = << 1, 0 >> /\ wire = << >>

\* ==== a send racing with a close (socket.h 298-314, 385-396; tcp.h 149-199) =
\* One thread runs sendTo calls; other threads accept connections and call
\* closeClient.  Socket::sockfd is a plain member that send_all reads and
\* closeSocket writes with no lock between them, and the OS gives a new
\* connection the lowest descriptor number that is free.
fdFrame == << vars, srvVars, proto, wire, wireEnd, sndVars, rcvVars, hown, hlive, hrel,
              hshut, hnext >>

\* socket.h 211-218 and tcp.h 243-248: ::accept returns the lowest free
\* number; it is stored in a new Socket, which goes into the registry under
\* the next id.
FdAccept ==
    /\ accepted < MaxConns
    /\ \E n \in Fds :
        /\ fdtab[n] = 0
        /\ \A k \in Fds : k < n => fdtab[k] # 0
        /\ fdtab' = [fdtab EXCEPT ![n] = accepted + 1]
        /\ sockfd' = [sockfd EXCEPT ![accepted + 1] = n]
    /\ registry' = registry \cup {accepted + 1}
    /\ accepted' = accepted + 1
    /\ UNCHANGED << fdFrame, tpc, tconn, targ, tleft, rcvd >>

\* tcp.h 149-157: sendTo(id, data, len) copies the shared_ptr of a
\* registered id under the lock and calls send_all on it.
FdSendTo(c) ==
    /\ tpc = "idle"
    /\ c \in registry
    /\ tconn' = c
    /\ tleft' = PayloadLen
    /\ tpc' = "valid"
    /\ UNCHANGED << fdFrame, fdtab, sockfd, registry, accepted, targ, rcvd >>

\* socket.h 299: `if (!valid()) return -1;`
FdValid ==
    /\ tpc = "valid"
    /\ tpc' = IF sockfd[tconn] = NoHandle THEN "idle" ELSE "load"
    /\ UNCHANGED << fdFrame, fdtab, sockfd, registry, accepted, tconn, targ, tleft, rcvd >>

\* socket.h 307: the loop reads the member sockfd for the argument of ::send.
FdLoad ==
    /\ tpc = "load"
    /\ targ' = sockfd[tconn]
    /\ tpc' = "send"
    /\ UNCHANGED << fdFrame, fdtab, sockfd, registry, accepted, tconn, tleft, rcvd >>

\* socket.h 307-311: ::send(targ, ..) fails on a number that is not open
\* (send_all returns -1); else it writes r >= 1 bytes to the connection that
\* is open under that number now, and the loop goes on while sent < len.
FdSend ==
    /\ tpc = "send"
    /\ IF targ = NoHandle \/ fdtab[targ] = 0
       THEN /\ tpc' = "idle"
            /\ UNCHANGED << tleft, rcvd >>
       ELSE \E r \in 1 .. tleft :
            /\ rcvd' = [rcvd EXCEPT ![fdtab[targ]] = @ \cup {tconn}]
            /\ tleft' = tleft - r
            /\ tpc' = IF r = tleft THEN "idle" ELSE "load"
    /\ UNCHANGED << fdFrame, fdtab, sockfd, registry, accepted, tconn, targ >>

\* tcp.h 188-199 and socket.h 385-396: closeClient(id) erases the entry and
\* closes the Socket: ::close(sockfd) frees the number, then sockfd = invalid.
FdClose(c) ==
    /\ c \in registry
    /\ registry' = registry \ {c}
    /\ fdtab' = [n \in Fds |-> IF n = sockfd[c] THEN 0 ELSE fdtab[n]]
    /\ sockfd' = [sockfd EXCEPT ![c] = NoHandle]
    /\ UNCHANGED << fdFrame, accepted, tpc, tconn, targ, tleft, rcvd >>

FdInit == NoPool /\ ServerUnused /\ IoUnused

FdNext ==
    \/ FdAccept
    \/ \E c \in ConnIds : FdSendTo(c)
    \/ FdValid
    \/ FdLoad
    \/ FdSend
    \/ \E c \in ConnIds : FdClose(c)

FdSpec == FdInit /\ [][FdNext]_<< allVars, ioVars >>

\* C38 as stated: the bytes of a sendTo(id, ..) are written to no connection
\* but the one whose Socket was copied from the registry for the call,
\* whatever close of that Socket races with its send_all.
C38_SendReachesOwnConnection ==
    \A d \in ConnIds : rcvd[d] \subseteq {d}

====
